---- MODULE Spec2Model ----
(***************************************************************************)
(* A model of AristaBGPParser (src/bgp_arista_web_server.py): the line     *)
(* normaliser, the five flat extractors and the BGP block scanner.         *)
(*                                                                         *)
(* Text is modelled as strings, and every Python string operation the      *)
(* parser uses (strip, split, startswith, find, `in`, join, re.match,      *)
(* re.findall) is computed character by character.  Cursors keep Python's  *)
(* 0-based values: At(lines, i) is lines[i].                               *)
(***************************************************************************)
EXTENDS Integers, Sequences, FiniteSets, TLC

(***************************************************************************)
(* Python string operations                                                *)
(***************************************************************************)

\* the characters str.strip(), str.split() and \s treat as whitespace
WhiteSpace == {" ", "\t", "\r", "\n", "\f"}

Digits == {"0", "1", "2", "3", "4", "5", "6", "7", "8", "9"}

Lower == {"a", "b", "c", "d", "e", "f", "g", "h", "i", "j", "k", "l", "m",
          "n", "o", "p", "q", "r", "s", "t", "u", "v", "w", "x", "y", "z"}

Upper == {"A", "B", "C", "D", "E", "F", "G", "H", "I", "J", "K", "L", "M",
          "N", "O", "P", "Q", "R", "S", "T", "U", "V", "W", "X", "Y", "Z"}

\* the characters \w matches
WordChars == Digits \cup Lower \cup Upper \cup {"_"}

\* s[k:k+1] for a 1-based k: the character at k, "" beyond the end
Char(s, k) == IF k \in 1..Len(s) THEN SubSeq(s, k, k) ELSE ""

\* s[k:] for a 1-based k
From(s, k) == IF k > Len(s) THEN "" ELSE SubSeq(s, k, Len(s))

\* s.startswith(p)
StartsWith(s, p) == Len(p) <= Len(s) /\ SubSeq(s, 1, Len(p)) = p

\* whether p stands in s at position k
MatchAt(s, p, k) == k + Len(p) - 1 <= Len(s) /\ SubSeq(s, k, k + Len(p) - 1) = p

\* the first position at or after k where p stands in s; 0 when there is none
FindFrom(s, p, k) ==
    IF \E j \in k..Len(s) : MatchAt(s, p, j)
    THEN CHOOSE j \in k..Len(s) :
             MatchAt(s, p, j) /\ \A m \in k..(j - 1) : ~MatchAt(s, p, m)
    ELSE 0

\* s.find(p), as a 1-based position; 0 when p does not occur (Python's -1)
Find(s, p) == FindFrom(s, p, 1)

\* p in s
Contains(s, p) == \E j \in 1..Len(s) : MatchAt(s, p, j)

\* the position after the run of characters of class that starts at k
RunEnd(s, k, class) ==
    CHOOSE j \in k..(Len(s) + 1) :
        /\ j = Len(s) + 1 \/ Char(s, j) \notin class
        /\ \A m \in k..(j - 1) : Char(s, m) \in class

\* the position of the first non-whitespace character at or after k;
\* len(s) + 1 when there is none
FirstNonSpace(s, k) == RunEnd(s, k, WhiteSpace)

\* the position of the last non-whitespace character at or before k; 0 when
\* there is none
LastNonSpace(s, k) ==
    k - (CHOOSE d \in 0..k :
            /\ d = k \/ Char(s, k - d) \notin WhiteSpace
            /\ \A m \in 0..(d - 1) : Char(s, k - m) \in WhiteSpace)

\* s.rstrip()
RStrip(s) == SubSeq(s, 1, LastNonSpace(s, Len(s)))

\* s.strip()
Strip(s) == SubSeq(s, FirstNonSpace(s, 1), LastNonSpace(s, Len(s)))

\* s.isspace()
IsSpace(s) == Len(s) > 0 /\ FirstNonSpace(s, 1) > Len(s)

\* the position after the run of non-whitespace characters that starts at k
WordEnd(s, k) ==
    CHOOSE j \in k..(Len(s) + 1) :
        /\ j = Len(s) + 1 \/ Char(s, j) \in WhiteSpace
        /\ \A m \in k..(j - 1) : Char(s, m) \notin WhiteSpace

RECURSIVE SplitFrom(_, _)
SplitFrom(s, k) ==
    LET b == FirstNonSpace(s, k)
    IN  IF b > Len(s) THEN << >>
        ELSE LET e == WordEnd(s, b)
             IN  << SubSeq(s, b, e - 1) >> \o SplitFrom(s, e)

\* s.split(): the whitespace-separated tokens of s
Split(s) == SplitFrom(s, 1)

RECURSIVE SplitOn(_, _)
\* s.split(sep) for a non-empty separator
SplitOn(s, sep) ==
    LET k == Find(s, sep)
    IN  IF k = 0 THEN << s >>
        ELSE << SubSeq(s, 1, k - 1) >> \o SplitOn(From(s, k + Len(sep)), sep)

RECURSIVE Join(_, _)
\* sep.join(parts)
Join(parts, sep) ==
    IF Len(parts) = 0 THEN ""
    ELSE IF Len(parts) = 1 THEN parts[1]
    ELSE parts[1] \o sep \o Join(Tail(parts), sep)

RECURSIVE Replace(_, _, _)
\* s.replace(old, new) for a non-empty old
Replace(s, old, new) ==
    LET k == Find(s, old)
    IN  IF k = 0 THEN s
        ELSE SubSeq(s, 1, k - 1) \o new \o Replace(From(s, k + Len(old)), old, new)

\* re.match(r'\d+\.\d+\.\d+\.\d+', s): four digit runs joined by dots, as a
\* prefix of s
IsIP(s) ==
    LET a == RunEnd(s, 1, Digits)
        b == RunEnd(s, a + 1, Digits)
        c == RunEnd(s, b + 1, Digits)
        d == RunEnd(s, c + 1, Digits)
    IN  /\ a > 1     /\ Char(s, a) = "."
        /\ b > a + 1 /\ Char(s, b) = "."
        /\ c > b + 1 /\ Char(s, c) = "."
        /\ d > c + 1

RECURSIVE FindAllFrom(_, _, _)
\* the names captured at or after k: at each place the keyword stands, the
\* run of word characters after at least one whitespace character
FindAllAt(s, kw, k, b, e) ==
    IF b > k + Len(kw) /\ e > b
    THEN {SubSeq(s, b, e - 1)} \cup FindAllFrom(s, kw, e)
    ELSE FindAllFrom(s, kw, k + 1)

FindAllNext(s, kw, k) ==
    IF k = 0 THEN {}
    ELSE FindAllAt(s, kw, k, RunEnd(s, k + Len(kw), WhiteSpace),
                   RunEnd(s, RunEnd(s, k + Len(kw), WhiteSpace), WordChars))

FindAllFrom(s, kw, k) == FindAllNext(s, kw, FindFrom(s, kw, k))

\* set(re.findall(kw + r'\s+(\w+)', s)): the names that follow the keyword
FindAll(s, kw) == FindAllFrom(s, kw, 1)

\* lines[i] for Python's 0-based i
At(lines, i) == lines[i + 1]

\* the value of a field that holds Python's None, and of a dictionary key
\* that was never set
None == "<None>"

(***************************************************************************)
(* parse_config: the line normaliser                                       *)
(***************************************************************************)

\* stands for U+FEFF, the byte-order mark: a character no input text of the
\* model uses for anything else
BOM == "~"

RECURSIVE KeepLinesStripped(_)
\* the lines kept with line.strip() in the place of line.rstrip()
KeepLinesStripped(raw) ==
    IF Len(raw) = 0 THEN << >>
    ELSE LET line == Strip(raw[1])
         IN  (IF line # "" /\ ~IsSpace(line) THEN << line >> ELSE << >>)
             \o KeepLinesStripped(Tail(raw))

RECURSIVE KeepLines(_)
KeepLines(raw) ==
    IF Len(raw) = 0 THEN << >>
    ELSE LET line == RStrip(raw[1])
         IN  (IF line # "" /\ ~IsSpace(line) THEN << line >> ELSE << >>)
             \o KeepLines(Tail(raw))

Normalize(content) == KeepLines(SplitOn(Replace(content, BOM, ""), "\n"))

(***************************************************************************)
(* reset                                                                   *)
(***************************************************************************)

\* the dictionary reset assigns to self.bgp_config
EmptyConfig ==
    [ asNumber         |-> "",
      routerId         |-> "",
      globalNeighbors  |-> << >>,
      vrfs             |-> << >>,
      peerGroups       |-> << >>,
      routeMaps        |-> << >>,
      prefixLists      |-> << >>,
      communityLists   |-> << >>,
      asPathSets       |-> << >>,
      extcommunitySets |-> << >>,
      accessLists      |-> << >> ]

\* a reset that clears the scalar fields and keeps the lists
resetKeepsLists(old) ==
    [old EXCEPT !.asNumber = "", !.routerId = ""]

\* reset on a parser whose bgp_config was old
reset(old) == EmptyConfig

(***************************************************************************)
(* _parse_prefix_lists                                                     *)
(***************************************************************************)

RECURSIVE PrefixSeqLines(_, _, _, _)
\* the sub-scan for the seq lines of one header: the cursor it ends at and
\* the mapping
PrefixSeqLines(lines, i, prefix_name, pl) ==
    IF i >= Len(lines) THEN [i |-> i, pl |-> pl]
    ELSE LET next_line == Strip(At(lines, i))
         IN  IF /\ StartsWith(next_line, "seq ")
                /\ (Contains(next_line, "permit") \/ Contains(next_line, "deny"))
             THEN LET seq_parts == Split(next_line)
                  IN  PrefixSeqLines(lines, i + 1, prefix_name,
                          IF Len(seq_parts) >= 4
                          THEN [pl EXCEPT ![prefix_name] =
                                   Append(@, Join(SubSeq(seq_parts, 3, Len(seq_parts)), " "))]
                          ELSE pl)
             ELSE IF \/ StartsWith(next_line, "ip prefix-list ")
                     \/ StartsWith(next_line, "!")
                     \/ next_line = ""
                  THEN [i |-> i - 1, pl |-> pl]
                  ELSE PrefixSeqLines(lines, i + 1, prefix_name, pl)

RECURSIVE PrefixScan(_, _, _)
\* the outer scan resumed without the step back `i -= 1`: the line that ended
\* the sub-scan is not examined again
PrefixResumeSkips(lines, r) == PrefixScan(lines, r.i + 2, r.pl)

\* the outer scan resumed after a sub-scan that returned r
PrefixResume(lines, r) == PrefixScan(lines, r.i + 1, r.pl)

PrefixScan(lines, i, pl) ==
    IF i >= Len(lines) THEN pl
    ELSE LET line  == Strip(At(lines, i))
             parts == Split(line)
         IN  IF StartsWith(line, "ip prefix-list ") /\ Len(parts) >= 3
             THEN PrefixResume(lines,
                      PrefixSeqLines(lines, i + 1, parts[3],
                          IF parts[3] \in DOMAIN pl THEN pl
                          ELSE pl @@ (parts[3] :> << >>)))
             ELSE PrefixScan(lines, i + 1, pl)

_parse_prefix_lists(cfg, lines) ==
    [cfg EXCEPT !.prefixLists = PrefixScan(lines, 0, @)]

(***************************************************************************)
(* _parse_community_lists                                                  *)
(***************************************************************************)

\* the position of the first record called name; 0 when there is none
IndexOfName(records, name) ==
    IF \E k \in 1..Len(records) : records[k].name = name
    THEN CHOOSE k \in 1..Len(records) :
             /\ records[k].name = name
             /\ \A j \in 1..(k - 1) : records[j].name # name
    ELSE 0

\* the communities of a later line put in the place of the earlier ones
AddCommunitiesOverwrite(cls, existing, community_name, communities) ==
    IF existing # 0
    THEN [cls EXCEPT ![existing].communities = communities]
    ELSE Append(cls, [name |-> community_name, communities |-> communities])

\* the list with the communities of one line added under community_name
AddCommunities(cls, existing, community_name, communities) ==
    IF existing # 0
    THEN [cls EXCEPT ![existing].communities = @ \o communities]
    ELSE Append(cls, [name |-> community_name, communities |-> communities])

RECURSIVE CommunityScan(_, _, _)
CommunityScan(lines, i, cls) ==
    IF i >= Len(lines) THEN cls
    ELSE LET line  == Strip(At(lines, i))
             parts == Split(line)
         IN  IF StartsWith(line, "ip community-list ") /\ Len(parts) >= 3
             THEN CommunityScan(lines, i + 1,
                      AddCommunities(cls, IndexOfName(cls, parts[3]), parts[3],
                          IF Contains(line, "permit")
                          THEN Split(Strip(From(line, Find(line, "permit") + 6)))
                          ELSE << >>))
             ELSE CommunityScan(lines, i + 1, cls)

_parse_community_lists(cfg, lines) ==
    [cfg EXCEPT !.communityLists = CommunityScan(lines, 0, @)]

(***************************************************************************)
(* _parse_access_lists                                                     *)
(***************************************************************************)

RECURSIVE AccessEntries(_, _, _)
\* the sub-scan for the entries of one header: the cursor it ends at and the
\* entries
AccessEntries(lines, i, entries) ==
    IF i >= Len(lines) THEN [i |-> i, entries |-> entries]
    ELSE LET next_line == Strip(At(lines, i))
         IN  IF StartsWith(next_line, "!") \/ next_line = ""
             THEN [i |-> i, entries |-> entries]
             ELSE IF next_line # "" /\ ~StartsWith(next_line, "ip access-list")
                  THEN AccessEntries(lines, i + 1, Append(entries, next_line))
                  ELSE IF \/ StartsWith(next_line, "ip access-list")
                          \/ StartsWith(next_line, "ip routing")
                       THEN [i |-> i - 1, entries |-> entries]
                       ELSE AccessEntries(lines, i + 1, entries)

RECURSIVE AccessScan(_, _, _)
\* the entries of a block added to the first record of the same name
AccessResumeMerges(lines, als, access_list_name, r) ==
    AccessScan(lines, r.i + 1,
        IF IndexOfName(als, access_list_name) # 0
        THEN [als EXCEPT ![IndexOfName(als, access_list_name)].entries = @ \o r.entries]
        ELSE Append(als, [name |-> access_list_name, entries |-> r.entries]))
\* the outer scan resumed after a sub-scan that returned r
AccessResume(lines, als, access_list_name, r) ==
    AccessScan(lines, r.i + 1,
        Append(als, [name |-> access_list_name, entries |-> r.entries]))

AccessScan(lines, i, als) ==
    IF i >= Len(lines) THEN als
    ELSE LET line  == Strip(At(lines, i))
             parts == Split(line)
         IN  IF StartsWith(line, "ip access-list ") /\ Len(parts) >= 3
             THEN AccessResume(lines, als, parts[3], AccessEntries(lines, i + 1, << >>))
             ELSE AccessScan(lines, i + 1, als)

_parse_access_lists(cfg, lines) ==
    [cfg EXCEPT !.accessLists = AccessScan(lines, 0, @)]

(***************************************************************************)
(* _parse_as_path_sets                                                     *)
(***************************************************************************)

\* the test `len(parts) >= 5`: an as-path line accepted without its pattern
AsPathMinPartsLow == 6 - 1

\* the number of tokens an as-path line needs
AsPathMinParts == 6

\* every line given a record of its own, whether or not the name has one
AddPathSeparate(sets, existing, as_path_name, path_pattern) ==
    Append(sets, [name |-> as_path_name, paths |-> << path_pattern >>])

\* the list with the pattern of one line added under as_path_name
AddPath(sets, existing, as_path_name, path_pattern) ==
    IF existing # 0
    THEN [sets EXCEPT ![existing].paths = Append(@, path_pattern)]
    ELSE Append(sets, [name |-> as_path_name, paths |-> << path_pattern >>])

RECURSIVE AsPathScan(_, _, _)
AsPathScan(lines, i, sets) ==
    IF i >= Len(lines) THEN sets
    ELSE LET line  == Strip(At(lines, i))
             parts == Split(line)
         IN  IF StartsWith(line, "ip as-path access-list ") /\ Len(parts) >= AsPathMinParts
             THEN AsPathScan(lines, i + 1,
                      AddPath(sets, IndexOfName(sets, parts[4]), parts[4],
                              Join(SubSeq(parts, 6, Len(parts)), " ")))
             ELSE AsPathScan(lines, i + 1, sets)

_parse_as_path_sets(cfg, lines) ==
    [cfg EXCEPT !.asPathSets = AsPathScan(lines, 0, @)]

(***************************************************************************)
(* _parse_route_maps                                                       *)
(***************************************************************************)

\* the number of tokens a route-map header needs
RouteMapMinParts == 4

\* the column-0 test left out: no line counts as unindented
UnindentedNever(original_line) == FALSE

\* a line at column 0 that is neither blank nor a `!` comment
Unindented(original_line) ==
    /\ ~StartsWith(original_line, " ")
    /\ ~StartsWith(original_line, "!")
    /\ Strip(original_line) # ""

RECURSIVE RouteMapBody(_, _, _)
\* the body sub-scan of one header: the cursor it ends at and the record
RouteMapBody(lines, i, rm) ==
    IF i >= Len(lines) THEN [i |-> i, rm |-> rm]
    ELSE LET original_line == RStrip(At(lines, i))
             line          == Strip(original_line)
         IN  IF Unindented(original_line) /\ ~StartsWith(line, "!")
             THEN [i |-> i, rm |-> rm]
             ELSE IF line # "" /\ ~StartsWith(line, "!")
                  THEN RouteMapBody(lines, i + 1,
                         [rm EXCEPT
                            !.lines         = Append(@, original_line),
                            !.prefixSets    = @ \cup FindAll(line, "prefix-list"),
                            !.communitySets = @ \cup FindAll(line, "community-list"),
                            !.asPathSets    = @ \cup FindAll(line, "as-path")])
                  ELSE RouteMapBody(lines, i + 1, rm)

RECURSIVE RouteMapScan(_, _, _)
\* the body lines of a header added to the first record of the same name
RouteMapMerge(lines, rms, r, existing) ==
    IF existing # 0
    THEN RouteMapScan(lines, r.i, [rms EXCEPT ![existing].lines = @ \o r.rm.lines])
    ELSE RouteMapScan(lines, r.i, Append(rms, r.rm))

\* the outer scan resumed with one record per route-map name
RouteMapResumeMerges(lines, rms, r) ==
    RouteMapMerge(lines, rms, r, IndexOfName(rms, r.rm.name))

\* the outer scan resumed after a body sub-scan that returned r
RouteMapResume(lines, rms, r) == RouteMapScan(lines, r.i, Append(rms, r.rm))

RouteMapScan(lines, i, rms) ==
    IF i >= Len(lines) THEN rms
    ELSE LET line  == Strip(At(lines, i))
             parts == Split(line)
         IN  IF StartsWith(line, "route-map ") /\ Len(parts) >= RouteMapMinParts
             THEN RouteMapResume(lines, rms,
                      RouteMapBody(lines, i + 1,
                          [name          |-> parts[2],
                           action        |-> parts[3],
                           sequence      |-> parts[4],
                           lines         |-> << >>,
                           prefixSets    |-> {},
                           communitySets |-> {},
                           asPathSets    |-> {}]))
             ELSE RouteMapScan(lines, i + 1, rms)

\* the names of the records of a list
NamesIn(records) == { records[k].name : k \in 1..Len(records) }

\* a route map with the names dropped that no list of cfg defines
Validated(cfg, rm) ==
    [rm EXCEPT !.prefixSets    = @ \cap DOMAIN cfg.prefixLists,
               !.communitySets = @ \cap NamesIn(cfg.communityLists),
               !.asPathSets    = @ \cap NamesIn(cfg.asPathSets)]

\* the names a route map references checked against the lists parsed before
_parse_route_mapsValidated(cfg, lines) ==
    [cfg EXCEPT !.routeMaps =
        [k \in 1..Len(RouteMapScan(lines, 0, @)) |->
            Validated(cfg, RouteMapScan(lines, 0, @)[k])]]

_parse_route_maps(cfg, lines) ==
    [cfg EXCEPT !.routeMaps = RouteMapScan(lines, 0, @)]

(***************************************************************************)
(* _parse_neighbor_block                                                   *)
(***************************************************************************)

Last(seq) == seq[Len(seq)]

\* the typed fields one `neighbor <ip> <config>` fragment sets, and the
\* fragment appended to configs
ApplyFragment(neighbor, config_part) ==
    LET typed ==
          IF StartsWith(config_part, "remote-as ")
          THEN [neighbor EXCEPT !.remoteAs = Last(Split(config_part))]
          ELSE IF StartsWith(config_part, "peer group ")
          THEN [neighbor EXCEPT !.peerGroup = Last(Split(config_part))]
          ELSE IF StartsWith(config_part, "description ")
          THEN [neighbor EXCEPT !.description =
                   IF Contains(config_part, "\"")
                   THEN SplitOn(config_part, "\"")[2]
                   ELSE Join(Tail(Split(config_part)), " ")]
          ELSE IF Contains(config_part, "route-map ") /\ Contains(config_part, " in")
          THEN [neighbor EXCEPT !.inRouteMap =
                   SplitOn(SplitOn(config_part, "route-map ")[2], " in")[1]]
          ELSE IF Contains(config_part, "route-map ") /\ Contains(config_part, " out")
          THEN [neighbor EXCEPT !.outRouteMap =
                   SplitOn(SplitOn(config_part, "route-map ")[2], " out")[1]]
          ELSE IF StartsWith(config_part, "default-originate")
          THEN [neighbor EXCEPT
                   !.defaultOriginate = config_part,
                   !.defaultOriginateRouteMap =
                       IF Contains(config_part, "route-map ")
                       THEN Strip(SplitOn(config_part, "route-map ")[2])
                       ELSE @]
          ELSE neighbor
    IN  [typed EXCEPT !.configs = Append(@, config_part)]

\* the test without the space after the IP: a line for an IP that begins
\* with neighbor_ip passes
IsLineOfPrefix(line, neighbor_ip) == StartsWith(line, "neighbor " \o neighbor_ip)

\* line.startswith(f'neighbor {neighbor_ip} ')
IsLineOf(line, neighbor_ip) == StartsWith(line, "neighbor " \o neighbor_ip \o " ")

\* line[len(f'neighbor {neighbor_ip} '):].strip()
ConfigPart(line, name) == Strip(From(line, Len("neighbor " \o name \o " ") + 1))

\* a line that ends a VRF section: the next three-space vrf line or an
\* unindented line
EndsVrf(next_line) == StartsWith(next_line, "   vrf ") \/ Unindented(next_line)

\* the global rescan without its skip of VRF sections: the cursor stays at
\* the vrf line, so that the rescan goes on with the line after it
SkipVrfNot(lines, i) == i

RECURSIVE SkipVrf(_, _)
\* the global rescan's skip of a VRF section that starts at line i: the
\* cursor when the skip loop ends
SkipVrf(lines, i) ==
    IF i + 1 >= Len(lines) THEN i + 1
    ELSE IF EndsVrf(At(lines, i + 1)) THEN i
    ELSE SkipVrf(lines, i + 1)

RECURSIVE FirstRouterBgp(_, _)
\* the first line at or after i that starts with `router bgp`; len(lines)
\* when there is none
FirstRouterBgp(lines, i) ==
    IF i >= Len(lines) THEN i
    ELSE IF StartsWith(Strip(At(lines, i)), "router bgp") THEN i
    ELSE FirstRouterBgp(lines, i + 1)

RECURSIVE GlobalRescan(_, _, _)
GlobalRescan(lines, i, neighbor) ==
    IF i >= Len(lines) THEN neighbor
    ELSE LET original_line == At(lines, i)
             line          == Strip(original_line)
         IN  IF Unindented(original_line) /\ ~StartsWith(line, "router bgp")
             THEN neighbor
             ELSE IF StartsWith(original_line, "   vrf ")
             THEN GlobalRescan(lines, SkipVrf(lines, i) + 1, neighbor)
             ELSE IF IsLineOf(line, neighbor.ip)
             THEN GlobalRescan(lines, i + 1,
                      ApplyFragment(neighbor, ConfigPart(line, neighbor.ip)))
             ELSE GlobalRescan(lines, i + 1, neighbor)

RECURSIVE FindVrfStart(_, _, _, _)
\* the first `vrf <vrf_name>` line inside a BGP section; -1 when there is none
FindVrfStart(lines, i, vrf_name, in_bgp_section) ==
    IF i >= Len(lines) THEN -1
    ELSE LET line == Strip(At(lines, i))
             in_bgp ==
                 IF StartsWith(line, "router bgp") THEN TRUE
                 ELSE IF /\ ~StartsWith(At(lines, i), " ")
                         /\ ~StartsWith(At(lines, i), "!")
                         /\ line # ""
                         /\ ~StartsWith(line, "router bgp")
                      THEN FALSE
                      ELSE in_bgp_section
         IN  IF in_bgp /\ line = "vrf " \o vrf_name THEN i
             ELSE FindVrfStart(lines, i + 1, vrf_name, in_bgp)

RECURSIVE VrfRescan(_, _, _)
VrfRescan(lines, i, neighbor) ==
    IF i >= Len(lines) THEN neighbor
    ELSE LET original_line == At(lines, i)
             line          == Strip(original_line)
         IN  IF \/ (StartsWith(original_line, "   vrf ") /\ line # "vrf " \o neighbor.vrf)
                \/ (Unindented(original_line) /\ ~StartsWith(line, "router bgp"))
             THEN neighbor
             ELSE IF IsLineOf(line, neighbor.ip)
             THEN VrfRescan(lines, i + 1,
                      ApplyFragment(neighbor, ConfigPart(line, neighbor.ip)))
             ELSE VrfRescan(lines, i + 1, neighbor)

\* the VRF neighbor's scan once vrf_start is known
VrfRescanFrom(lines, vrf_start, neighbor) ==
    IF vrf_start = -1 THEN neighbor ELSE VrfRescan(lines, vrf_start, neighbor)

\* the cursor handed back and the neighbor as the rescan leaves it
_parse_neighbor_block(lines, start_idx, neighbor, is_global) ==
    IF is_global
    THEN [i |-> start_idx,
          neighbor |-> GlobalRescan(lines, FirstRouterBgp(lines, 0), neighbor)]
    ELSE [i |-> start_idx,
          neighbor |-> VrfRescanFrom(lines,
                           FindVrfStart(lines, 0, neighbor.vrf, FALSE), neighbor)]

\* the dictionary a scan creates for a neighbor before its rescan
NewNeighbor(neighbor_ip, vrf_name) ==
    [ ip |-> neighbor_ip, remoteAs |-> "", description |-> "", configs |-> << >>,
      vrf |-> vrf_name, peerGroup |-> None, inRouteMap |-> None,
      outRouteMap |-> None, defaultOriginate |-> None,
      defaultOriginateRouteMap |-> None ]

\* the test `neighbor['remoteAs'] and neighbor['description']`
RetainedNeedsBoth(neighbor) == neighbor.remoteAs # "" /\ neighbor.description # ""

\* the neighbor appended without the test
RetainedAlways(neighbor) == TRUE

\* neighbor['remoteAs'] or neighbor['description']
Retained(neighbor) == neighbor.remoteAs # "" \/ neighbor.description # ""

(***************************************************************************)
(* _parse_peer_group                                                       *)
(***************************************************************************)

\* the typed fields one `neighbor <group> <config>` fragment sets, and the
\* fragment appended to configs
ApplyGroupFragment(group, config_part) ==
    LET typed ==
          IF StartsWith(config_part, "description ")
          THEN [group EXCEPT !.description =
                   IF Contains(config_part, "\"")
                   THEN SplitOn(config_part, "\"")[2]
                   ELSE Join(Tail(Split(config_part)), " ")]
          ELSE IF Contains(config_part, "route-map ") /\ Contains(config_part, " in")
          THEN [group EXCEPT !.inRouteMap =
                   SplitOn(SplitOn(config_part, "route-map ")[2], " in")[1]]
          ELSE IF Contains(config_part, "route-map ") /\ Contains(config_part, " out")
          THEN [group EXCEPT !.outRouteMap =
                   SplitOn(SplitOn(config_part, "route-map ")[2], " out")[1]]
          ELSE IF StartsWith(config_part, "remote-as ")
          THEN [group EXCEPT !.remoteAs = Last(Split(config_part))]
          ELSE group
    IN  [typed EXCEPT !.configs = Append(@, config_part)]

RECURSIVE PeerGroupBody(_, _, _)
\* the body loop: the cursor it ends at and the group
PeerGroupBody(lines, i, group) ==
    IF i >= Len(lines) THEN [i |-> i, group |-> group]
    ELSE LET original_line == RStrip(At(lines, i))
             line          == Strip(original_line)
         IN  IF /\ ~StartsWith(original_line, "   ")
                /\ ~StartsWith(original_line, "!")
                /\ Strip(original_line) # ""
             THEN [i |-> i, group |-> group]
             ELSE IF IsLineOf(line, group.name)
             THEN PeerGroupBody(lines, i + 1,
                      ApplyGroupFragment(group, ConfigPart(line, group.name)))
             ELSE IF /\ StartsWith(line, "neighbor ")
                     /\ \/ (Contains(line, "peer group") /\ ~Contains(line, group.name))
                        \/ ~Contains(line, "peer group")
             THEN [i |-> i, group |-> group]
             ELSE PeerGroupBody(lines, i + 1, group)

\* the cursor handed back and the configuration with the group added
\* what follows the body loop that returned r
PeerGroupEnd(cfg, r) ==
    [i   |-> r.i - 1,
     cfg |-> IF r.group.description # "" \/ r.group.configs # << >>
             THEN [cfg EXCEPT !.peerGroups = Append(@, r.group)]
             ELSE cfg]

_parse_peer_group(cfg, lines, start_idx, group_name) ==
    PeerGroupEnd(cfg,
        PeerGroupBody(lines, start_idx,
            [ name |-> group_name, remoteAs |-> "", description |-> "",
              configs |-> << >>, inRouteMap |-> None, outRouteMap |-> None ]))

(***************************************************************************)
(* _parse_vrf_block                                                        *)
(***************************************************************************)

RECURSIVE VrfBody(_, _, _, _, _)
\* the body loop resumed after _parse_neighbor_block returned r for neighbor_ip
VrfResume(lines, vrf, processed_neighbors, calls, neighbor_ip, r) ==
    VrfBody(lines, r.i,
        IF Retained(r.neighbor)
        THEN [vrf EXCEPT !.neighbors = Append(@, r.neighbor)]
        ELSE vrf,
        processed_neighbors \cup {neighbor_ip},
        Append(calls, neighbor_ip))

\* the body loop: the cursor it ends at, the vrf, and the IPs it called
\* _parse_neighbor_block for, in call order
VrfBody(lines, i, vrf, processed_neighbors, calls) ==
    IF i >= Len(lines) THEN [i |-> i, vrf |-> vrf, calls |-> calls]
    ELSE LET original_line == At(lines, i)
             line          == Strip(original_line)
             parts         == Split(line)
         IN  IF StartsWith(original_line, "   vrf ") \/ Unindented(original_line)
             THEN [i |-> i, vrf |-> vrf, calls |-> calls]
             ELSE IF StartsWith(line, "rd ")
             THEN VrfBody(lines, i + 1, [vrf EXCEPT !.rd = Last(Split(line))],
                          processed_neighbors, calls)
             ELSE IF /\ StartsWith(line, "neighbor ")
                     /\ StartsWith(original_line, "      neighbor ")
                     /\ Len(parts) >= 2
                     /\ IsIP(parts[2])
                     /\ parts[2] \notin processed_neighbors
             THEN VrfResume(lines, vrf, processed_neighbors, calls, parts[2],
                      _parse_neighbor_block(lines, i,
                          NewNeighbor(parts[2], vrf.name), FALSE))
             ELSE VrfBody(lines, i + 1, vrf, processed_neighbors, calls)

\* the cursor handed back, the vrf, and the rescans made
VrfEnd(r) == [i |-> r.i - 1, vrf |-> r.vrf, calls |-> r.calls]

_parse_vrf_block(lines, start_idx, vrf) ==
    VrfEnd(VrfBody(lines, start_idx, vrf, {}, << >>))

(***************************************************************************)
(* _parse_bgp_block: one iteration of its loop                             *)
(***************************************************************************)

\* the iteration's outcome after _parse_peer_group returned r
AfterPeerGroup(stay, r) == [stay EXCEPT !.i = r.i, !.cfg = r.cfg]

\* the iteration's outcome after _parse_vrf_block returned r
AfterVrf(stay, r) ==
    [stay EXCEPT
        !.i     = r.i,
        !.cfg   = [@ EXCEPT !.vrfs = Append(@, r.vrf)],
        !.calls = [n \in 1..Len(r.calls) |-> << Len(stay.cfg.vrfs) + 1, r.calls[n] >>]]

\* the iteration's outcome after _parse_neighbor_block returned r, without
\* `processed_neighbors.add(neighbor_ip)`
AfterNeighborForgets(stay, neighbor_ip, r) ==
    [stay EXCEPT
        !.i   = r.i,
        !.cfg = IF r.neighbor.remoteAs # "" \/ r.neighbor.description # ""
                THEN [@ EXCEPT !.globalNeighbors = Append(@, r.neighbor)]
                ELSE @,
        !.calls = << << 0, neighbor_ip >> >>]

\* the iteration's outcome after _parse_neighbor_block returned r
AfterNeighbor(stay, neighbor_ip, r) ==
    [stay EXCEPT
        !.i   = r.i,
        !.cfg = IF Retained(r.neighbor)
                THEN [@ EXCEPT !.globalNeighbors = Append(@, r.neighbor)]
                ELSE @,
        !.processed_neighbors = @ \cup {neighbor_ip},
        !.calls = << << 0, neighbor_ip >> >>]

\* One pass through the body of `while i < len(lines)`, for i < len(lines):
\* whether it left the loop by break, whether it raised IndexError, the
\* cursor, processed set and configuration after it, and the
\* _parse_neighbor_block calls it made as <<scope, ip>>, where scope is 0
\* for the global scan and k for the scan of the k-th Vrf record.
BlockIteration(lines, i, processed_neighbors, cfg) ==
    LET original_line == At(lines, i)
        line          == Strip(original_line)
        parts         == Split(line)
        stay == [brk |-> FALSE, raised |-> FALSE, i |-> i + 1,
                 processed_neighbors |-> processed_neighbors,
                 cfg |-> cfg, calls |-> << >>]
    IN  IF Unindented(original_line) /\ ~StartsWith(Strip(original_line), "router bgp")
        THEN [stay EXCEPT !.brk = TRUE, !.i = i]
        ELSE IF StartsWith(line, "router-id ")
        THEN [stay EXCEPT !.cfg = [cfg EXCEPT !.routerId = Last(Split(line))]]
        ELSE IF /\ StartsWith(line, "neighbor ")
                /\ Contains(line, "peer group")
                /\ StartsWith(original_line, "   neighbor ")
        THEN IF /\ Len(parts) >= 4
                /\ parts[3] = "peer"
                /\ parts[4] = "group"
                /\ ~IsIP(parts[2])
             THEN AfterPeerGroup(stay, _parse_peer_group(cfg, lines, i, parts[2]))
             ELSE stay
        ELSE IF StartsWith(line, "vrf ") /\ StartsWith(original_line, "   vrf ")
        THEN IF Len(parts) < 2
             THEN [stay EXCEPT !.raised = TRUE, !.i = i]
             ELSE AfterVrf(stay,
                      _parse_vrf_block(lines, i + 1,
                          [name |-> parts[2], rd |-> "", neighbors |-> << >>]))
        ELSE IF /\ StartsWith(line, "neighbor ")
                /\ StartsWith(original_line, "   neighbor ")
                /\ ~Contains(line, "peer group")
                /\ Len(parts) >= 2
                /\ IsIP(parts[2])
                /\ parts[2] \notin processed_neighbors
        THEN AfterNeighbor(stay, parts[2],
                 _parse_neighbor_block(lines, i, NewNeighbor(parts[2], None), TRUE))
        ELSE stay

(***************************************************************************)
(* _parse_bgp_section: the search for the `router bgp` line                *)
(***************************************************************************)

RECURSIVE FindBgpLine(_, _)
\* the first line at or after i that starts with `router bgp `; len(lines)
\* when there is none
FindBgpLine(lines, i) ==
    IF i >= Len(lines) THEN i
    ELSE IF StartsWith(Strip(At(lines, i)), "router bgp ") THEN i
    ELSE FindBgpLine(lines, i + 1)

\* the five extractors parse_config runs before _parse_bgp_section
FlatExtractors(cfg, lines) ==
    _parse_route_maps(
        _parse_as_path_sets(
            _parse_access_lists(
                _parse_community_lists(
                    _parse_prefix_lists(cfg, lines), lines), lines), lines), lines)

\* _parse_bgp_section that calls _parse_bgp_block from the first line when it
\* found no `router bgp ` line
BgpSectionAlwaysBlock(cfg, ls, b) ==
    IF b >= Len(ls)
    THEN [pc |-> "bgp_block", cfg |-> cfg, i |-> 0]
    ELSE IF Len(Split(Strip(At(ls, b)))) < 3
    THEN [pc |-> "error", cfg |-> cfg, i |-> b]
    ELSE [pc  |-> "bgp_block",
          cfg |-> [cfg EXCEPT !.asNumber = Split(Strip(At(ls, b)))[3]],
          i   |-> b + 1]

\* _parse_bgp_section on the configuration the flat extractors left, b the
\* index of the first `router bgp ` line: where the call stands when
\* _parse_bgp_block is entered, or when it is not
_parse_bgp_section(cfg, ls, b) ==
    IF b >= Len(ls)
    THEN [pc |-> "done", cfg |-> cfg, i |-> b]
    ELSE IF Len(Split(Strip(At(ls, b)))) < 3
    THEN [pc |-> "error", cfg |-> cfg, i |-> b]
    ELSE [pc  |-> "bgp_block",
          cfg |-> [cfg EXCEPT !.asNumber = Split(Strip(At(ls, b)))[3]],
          i   |-> b + 1]

\* parse_config on the normalised lines ls, up to the entry of
\* _parse_bgp_block
ParseLines(cfg, ls) ==
    _parse_bgp_section(FlatExtractors(cfg, ls), ls, FindBgpLine(ls, 0))

(***************************************************************************)
(* parse_config as one computation                                         *)
(***************************************************************************)

\* how many iterations beyond twice the line count the block scan is followed
MaxSpin == 2

\* the most iterations _parse_bgp_block is followed for on ls: MaxSpin more
\* than a scan needs that never stands still
IterationCap(ls) == 2 * Len(ls) + MaxSpin

RECURSIVE _parse_bgp_block(_, _, _, _, _)
\* the loop continued after an iteration with outcome r
BlockContinue(ls, r, fuel) ==
    IF r.raised THEN [pc |-> "error", cfg |-> r.cfg, i |-> r.i]
    ELSE IF r.brk THEN [pc |-> "done", cfg |-> r.cfg, i |-> r.i]
    ELSE _parse_bgp_block(ls, r.i, r.processed_neighbors, r.cfg, fuel - 1)

\* the loop of _parse_bgp_block from cursor i, followed for at most fuel
\* iterations: pc is "bgp_block" when it has not ended by then
_parse_bgp_block(ls, i, processed_neighbors, cfg, fuel) ==
    IF fuel = 0 THEN [pc |-> "bgp_block", cfg |-> cfg, i |-> i]
    ELSE IF i >= Len(ls) THEN [pc |-> "done", cfg |-> cfg, i |-> i]
    ELSE BlockContinue(ls, BlockIteration(ls, i, processed_neighbors, cfg), fuel)

\* the block scan entered where _parse_bgp_section stands at st
EnterBlock(ls, st) ==
    IF st.pc = "bgp_block"
    THEN _parse_bgp_block(ls, st.i, {}, st.cfg, IterationCap(ls))
    ELSE st

\* the extractors run on the lines ls by a parser whose bgp_config is cfg
parse_lines(cfg, ls) == EnterBlock(ls, ParseLines(cfg, ls))

\* parse_config(text) on a parser whose bgp_config was old: how the call
\* ends and the Configuration it returns
parse_config(old, text) == parse_lines(reset(old), Normalize(text))

\* the k-th of the six extractor calls of parse_config, run to its end on a
\* parser whose bgp_config is cfg: the Configuration it leaves
Extractor(k, cfg, ls) ==
    CASE k = 1 -> _parse_prefix_lists(cfg, ls)
      [] k = 2 -> _parse_community_lists(cfg, ls)
      [] k = 3 -> _parse_access_lists(cfg, ls)
      [] k = 4 -> _parse_as_path_sets(cfg, ls)
      [] k = 5 -> _parse_route_maps(cfg, ls)
      [] k = 6 -> EnterBlock(ls, _parse_bgp_section(cfg, ls, FindBgpLine(ls, 0))).cfg

(***************************************************************************)
(* The outer scans of the five flat extractors, one iteration at a time    *)
(***************************************************************************)

\* the scans in the order parse_config runs them
FlatScans ==
    << "prefix_lists", "community_lists", "access_lists", "as_path_sets", "route_maps" >>

\* one iteration of the outer loop of _parse_prefix_lists without the
\* `i += 1` after the sub-scan
PrefixIterationStays(lines, i, pl) ==
    LET line  == Strip(At(lines, i))
        parts == Split(line)
    IN  IF StartsWith(line, "ip prefix-list ") /\ Len(parts) >= 3
        THEN PrefixSeqLines(lines, i + 1, parts[3],
                 IF parts[3] \in DOMAIN pl THEN pl ELSE pl @@ (parts[3] :> << >>))
        ELSE [i |-> i + 1, pl |-> pl]

\* one iteration of the outer loop of _parse_prefix_lists at cursor i: the
\* cursor and the mapping after it
PrefixIteration(lines, i, pl) ==
    LET line  == Strip(At(lines, i))
        parts == Split(line)
    IN  IF StartsWith(line, "ip prefix-list ") /\ Len(parts) >= 3
        THEN LET r == PrefixSeqLines(lines, i + 1, parts[3],
                          IF parts[3] \in DOMAIN pl THEN pl ELSE pl @@ (parts[3] :> << >>))
             IN  [i |-> r.i + 1, pl |-> r.pl]
        ELSE [i |-> i + 1, pl |-> pl]

\* one iteration of the loop of _parse_community_lists
CommunityIteration(lines, i, cls) ==
    LET line  == Strip(At(lines, i))
        parts == Split(line)
    IN  [i   |-> i + 1,
         cls |-> IF StartsWith(line, "ip community-list ") /\ Len(parts) >= 3
                 THEN AddCommunities(cls, IndexOfName(cls, parts[3]), parts[3],
                          IF Contains(line, "permit")
                          THEN Split(Strip(From(line, Find(line, "permit") + 6)))
                          ELSE << >>)
                 ELSE cls]

\* one iteration of the outer loop of _parse_access_lists
AccessIteration(lines, i, als) ==
    LET line  == Strip(At(lines, i))
        parts == Split(line)
    IN  IF StartsWith(line, "ip access-list ") /\ Len(parts) >= 3
        THEN LET r == AccessEntries(lines, i + 1, << >>)
             IN  [i   |-> r.i + 1,
                  als |-> Append(als, [name |-> parts[3], entries |-> r.entries])]
        ELSE [i |-> i + 1, als |-> als]

\* one iteration of the loop of _parse_as_path_sets
AsPathIteration(lines, i, sets) ==
    LET line  == Strip(At(lines, i))
        parts == Split(line)
    IN  [i    |-> i + 1,
         sets |-> IF /\ StartsWith(line, "ip as-path access-list ")
                     /\ Len(parts) >= AsPathMinParts
                  THEN AddPath(sets, IndexOfName(sets, parts[4]), parts[4],
                               Join(SubSeq(parts, 6, Len(parts)), " "))
                  ELSE sets]

\* one iteration of the outer loop of _parse_route_maps: after a header the
\* loop continues at the line that ended the body
RouteMapIteration(lines, i, rms) ==
    LET line  == Strip(At(lines, i))
        parts == Split(line)
    IN  IF StartsWith(line, "route-map ") /\ Len(parts) >= RouteMapMinParts
        THEN LET r == RouteMapBody(lines, i + 1,
                          [name          |-> parts[2],
                           action        |-> parts[3],
                           sequence      |-> parts[4],
                           lines         |-> << >>,
                           prefixSets    |-> {},
                           communitySets |-> {},
                           asPathSets    |-> {}])
             IN  [i |-> r.i, rms |-> Append(rms, r.rm)]
        ELSE [i |-> i + 1, rms |-> rms]

\* one iteration of the outer loop of the k-th flat scan on a parser whose
\* bgp_config is cfg: the cursor and the Configuration after it
ScanIteration(k, lines, i, cfg) ==
    CASE k = 1 -> LET r == PrefixIteration(lines, i, cfg.prefixLists)
                  IN  [i |-> r.i, cfg |-> [cfg EXCEPT !.prefixLists = r.pl]]
      [] k = 2 -> LET r == CommunityIteration(lines, i, cfg.communityLists)
                  IN  [i |-> r.i, cfg |-> [cfg EXCEPT !.communityLists = r.cls]]
      [] k = 3 -> LET r == AccessIteration(lines, i, cfg.accessLists)
                  IN  [i |-> r.i, cfg |-> [cfg EXCEPT !.accessLists = r.als]]
      [] k = 4 -> LET r == AsPathIteration(lines, i, cfg.asPathSets)
                  IN  [i |-> r.i, cfg |-> [cfg EXCEPT !.asPathSets = r.sets]]
      [] k = 5 -> LET r == RouteMapIteration(lines, i, cfg.routeMaps)
                  IN  [i |-> r.i, cfg |-> [cfg EXCEPT !.routeMaps = r.rms]]

(***************************************************************************)
(* The parser object and one parse_config call                             *)
(***************************************************************************)

VARIABLES
    pc,                   \* where the parser is: "idle", "reset", "bgp_block",
                          \* "done" (parse_config returned), "error" (it raised)
    content,              \* the argument of the running parse_config call
    lines,                \* parse_config's normalised line sequence
    bgp_config,           \* self.bgp_config
    i,                    \* _parse_bgp_block's cursor
    processed_neighbors,  \* _parse_bgp_block's processed set
    rescans,              \* the _parse_neighbor_block calls of this parse
    iters,                \* the iterations _parse_bgp_block has made
    reused,               \* whether parse_config has returned on this parser before
    peer,                 \* a second AristaBGPParser object: its pc, content, lines,
                          \* bgp_config, i, processed_neighbors and iters, and
                          \* whether its running call has made a step while a call
                          \* on the first parser was running
    web                   \* the web server and its client: phase is "listening",
                          \* "handling" (a handler object is constructed for a
                          \* connection), "finished" (it has responded) or "hung"
                          \* (its parse_config call does not return); parser is the
                          \* bgp_config of the handler's self.parser; path and data
                          \* are the request, status and body the response, body
                          \* the generated lines; uploaded holds the Configuration
                          \* of the last upload response

vars == << pc, content, lines, bgp_config, i, processed_neighbors, rescans, iters,
           reused, peer, web >>

\* the lines of a BGP block that the input texts are made of
BodyPool ==
    { "   neighbor 10.0.0.1 remote-as 65001",
      "   neighbor 10.0.0.1 shutdown",
      "   neighbor PG peer group",
      "   neighbor PG remote-as 65009",
      "   vrf A",
      "      neighbor 10.0.0.1 remote-as 65002",
      "end" }

\* what an input text has before its body: a `router bgp <AS>` line, a
\* `router bgp` line without AS number, or nothing
Headers == { << "router bgp 65000" >>, << "router bgp" >>, << >> }

\* the most body lines an input text has
MaxBody == 3

RECURSIVE Bodies(_, _)
\* the sequences of at most n lines of pool
Bodies(pool, n) ==
    IF n = 0 THEN { << >> }
    ELSE { b \o t : b \in Bodies(pool, n - 1), t \in { << >> } \cup { << l >> : l \in pool } }

\* the text whose lines are ls
Text(ls) == Join(ls, "\n") \o "\n"

\* the end-to-end scenario
EndToEnd ==
    Text(<< "router bgp 65000",
            "   router-id 1.1.1.1",
            "   neighbor 10.0.0.1 remote-as 65001",
            "   neighbor 10.0.0.1 description \"Peer A\"",
            "   vrf CUSTOMER_A",
            "      rd 100:1",
            "      neighbor 10.0.0.2 remote-as 65002" >>)

\* the input texts of a parser's first parse_config call: a header and a
\* body, and the end-to-end scenario
Inputs ==
    { Text(h \o b) : h \in Headers, b \in Bodies(BodyPool, MaxBody) } \cup { EndToEnd }

\* the most body lines an input text of a later call has
MaxLaterBody == 2

\* the input texts of the later parse_config calls on a parser
LaterInputs ==
    { Text(h \o b) : h \in Headers, b \in Bodies(BodyPool, MaxLaterBody) }
        \cup { EndToEnd }

\* the unindented lines outside the BGP block that the flat input texts are
\* made of
FlatPool ==
    { "ip as-path access-list AP1 permit ^65001_",
      "ip as-path access-list AP1 permit",
      "route-map RM1 permit 10",
      "route-map RM1 permit",
      "   match as-path AP1" }

\* the flat input texts: a body of flat lines, alone or before a BGP block
FlatInputs ==
    { Text(b \o t) : b \in Bodies(FlatPool, MaxBody),
                     t \in { << >>, << "router bgp 65000", "   router-id 1.1.1.1" >> } }

\* the most lines the body of a list input text has
MaxListBody == 4

\* the lines the prefix-list input texts are made of
PrefixPool ==
    { "ip prefix-list P1",
      "ip prefix-list P2",
      "   seq 10 permit 10.0.0.0/8",
      "   seq 20 deny 10.1.0.0/16 le 24",
      "!" }

\* the lines the community-list input texts are made of
CommunityPool ==
    { "ip community-list X permit 65000:1",
      "ip community-list X permit 65000:2 65000:3",
      "ip community-list X deny 65000:4",
      "ip community-list Y permit 65000:1" }

\* the lines the route-map input texts are made of
RouteMapPool ==
    { "route-map RM1 permit 10",
      "route-map RM1 permit 20",
      "   match ip address prefix-list FOO",
      "  match ip address   prefix-list  FOO",
      "   match ip address prefix-list PL-1" }

\* a route map and a neighbor that name objects the text does not define
DanglingLines ==
    << "route-map RM1 permit 10",
       "   match ip address prefix-list FOO",
       "   match community-list CL1",
       "   match as-path AP1",
       "router bgp 65000",
       "   neighbor 10.0.0.1 remote-as 65001",
       "   neighbor 10.0.0.1 route-map RM9 in",
       "   neighbor 10.0.0.1 peer group PG9" >>

\* definitions of the lists that DanglingLines names
DefinitionLines ==
    << "ip prefix-list FOO",
       "   seq 10 permit 10.0.0.0/8",
       "ip community-list CL1 permit 65000:1",
       "ip as-path access-list AP1 permit _65001_" >>

\* the list input texts: bodies of prefix-list lines, of community-list
\* lines and of route-map lines, and the text with the dangling references,
\* alone and after the definitions
ListInputs ==
    { Text(b) : b \in Bodies(PrefixPool, MaxListBody)
                       \cup Bodies(CommunityPool, MaxListBody)
                       \cup Bodies(RouteMapPool, MaxListBody)
                       \cup { DanglingLines, DefinitionLines \o DanglingLines } }

\* the most raw lines a raw input text has
MaxRawLines == 3

\* the raw lines the raw input texts are made of: empty and all-blank lines,
\* lines with trailing whitespace and lines with byte-order marks
RawPool ==
    { "",
      "   ",
      "\t",
      "router bgp 65000  ",
      "~   neighbor 10.0.0.1 remote-as 65001\t",
      "   router-id 1.1.1.1~ \r",
      "~" }

\* the raw input texts: at most MaxRawLines raw lines joined by newlines; the
\* empty text is among them
RawInputs == { Join(b, "\n") : b \in Bodies(RawPool, MaxRawLines) }

\* the most body lines a VRF input text has
MaxVrfBody == 4

\* the lines of a BGP block that the VRF input texts are made of: two vrf
\* lines, six-space lines of a VRF block and a three-space neighbor line
VrfPool ==
    { "   vrf A",
      "   vrf B",
      "      neighbor 10.0.0.1 remote-as 65002",
      "   neighbor 10.0.0.1 remote-as 65001",
      "      router-id 9.9.9.9" }

\* a VRF block that stands after the body of a peer group
GroupThenVrf ==
    << "router bgp 65000",
       "   neighbor PG peer group",
       "   vrf A",
       "      rd 100:1",
       "      neighbor 10.0.0.1 remote-as 65002" >>

\* the VRF input texts: a `router bgp` line and a body of VRF lines, and the
\* VRF block after a peer group
VrfInputs ==
    { Text(<< "router bgp 65000" >> \o b) : b \in Bodies(VrfPool, MaxVrfBody) }
        \cup { Text(GroupThenVrf) }

\* the most body lines a peer-group input text has
MaxGroupBody == 4

\* the three-space lines of a BGP block that the peer-group input texts are
\* made of: definitions of two groups, a line of the first group, two
\* router-id lines and a neighbor line
GroupPool ==
    { "   neighbor PG peer group",
      "   neighbor PG remote-as 65009",
      "   neighbor PG2 peer group",
      "   router-id 1.1.1.1",
      "   router-id 2.2.2.2",
      "   neighbor 10.0.0.1 remote-as 65001" }

\* a peer group defined after a VRF block
VrfThenGroup ==
    << "router bgp 65000",
       "   vrf A",
       "      rd 100:1",
       "   neighbor PG peer group",
       "   neighbor PG remote-as 65009" >>

\* the peer-group input texts: a `router bgp` line and a body of peer-group
\* lines, and the peer group after a VRF block
GroupInputs ==
    { Text(<< "router bgp 65000" >> \o b) : b \in Bodies(GroupPool, MaxGroupBody) }
        \cup { Text(VrfThenGroup) }

\* the most fragment lines a fragment input text has
MaxFragments == 2

\* the lines with route-map and default-originate fragments that the fragment
\* input texts are made of, for a neighbor and for a peer group
FragmentPool ==
    { "   neighbor 10.0.0.1 route-map RM1 in",
      "   neighbor 10.0.0.1 route-map RM2 out",
      "   neighbor 10.0.0.1 route-map internal out",
      "   neighbor PG route-map RM1 in",
      "   neighbor PG route-map internal out",
      "   neighbor 10.0.0.1 default-originate",
      "   neighbor 10.0.0.1 default-originate route-map RM1",
      "   neighbor 10.0.0.1 default-originate route-map RM1 always" }

\* the fragment input texts: a BGP block that defines the peer group PG,
\* then at most MaxFragments fragment lines, then the remote-as line of the
\* neighbor
FragmentInputs ==
    { Text(<< "router bgp 65000",
              "   neighbor PG peer group",
              "   neighbor PG remote-as 65009" >>
           \o b \o << "   neighbor 10.0.0.1 remote-as 65001" >>) :
        b \in Bodies(FragmentPool, MaxFragments) }

\* the most lines a seq input text has
MaxSeqBody == 4

\* the lines the seq input texts are made of: headers of two prefix lists,
\* two seq lines, a `!` line and a line that is neither a seq line nor a
\* line that ends the sub-scan
SeqPool ==
    { "ip prefix-list P1",
      "ip prefix-list P2",
      "   seq 10 permit 10.0.0.0/8",
      "   seq 20 deny 10.1.0.0/16 le 24",
      "!",
      "ipv6 prefix-list P6" }

\* the seq input texts
SeqInputs == { Text(b) : b \in Bodies(SeqPool, MaxSeqBody) }

\* the most lines a community input text has
MaxCommunityBody == 4

\* the community-list lines the community input texts are made of: permit
\* lines with one value, with two and with none, a line whose name holds the
\* letters of the keyword, and a line with a list type before the name
CommunityKeywordPool ==
    { "ip community-list X permit 65000:1",
      "ip community-list X permit",
      "ip community-list permit-all permit 65000:1",
      "ip community-list standard Y permit 65000:2 65000:3" }

\* the community input texts
CommunityInputs == { Text(b) : b \in Bodies(CommunityKeywordPool, MaxCommunityBody) }

\* the most lines an as-path input text has
MaxAsPathBody == 4

\* the as-path lines the as-path input texts are made of: lines of two names,
\* patterns of one token and of two, two tokens of a pattern two spaces
\* apart, and a line without a pattern
AsPathPool ==
    { "ip as-path access-list AP1 permit ^65001_",
      "ip as-path access-list AP2 deny _65002$",
      "ip as-path access-list AP1 deny ^65003 65004$",
      "ip as-path access-list AP1 permit ^65001  65002$",
      "ip as-path access-list AP1 permit" }

\* the as-path input texts
AsPathInputs == { Text(b) : b \in Bodies(AsPathPool, MaxAsPathBody) }

\* the most lines an access-list input text has
MaxAccessBody == 4

\* the lines the access-list input texts are made of: headers of two access
\* lists, an indented and an unindented entry, a `!` line and the line of
\* another top-level statement
AccessPool ==
    { "ip access-list ACL1",
      "ip access-list ACL2",
      "   10 permit ip any any",
      "permit ip any any",
      "!",
      "ip routing" }

\* the access-list input texts
AccessInputs == { Text(b) : b \in Bodies(AccessPool, MaxAccessBody) }

\* the most lines a route-map body input text has
MaxRouteMapBody == 4

\* the lines the route-map body input texts are made of: a header, a body
\* line indented by spaces and one indented by a tab, an unindented and an
\* indented `!` comment, and the line of another top-level statement
RouteMapBodyPool ==
    { "route-map RM1 permit 10",
      "   match as-path AP1",
      "\tset metric 5",
      "!",
      "   ! note",
      "ip routing" }

\* the route-map body input texts
RouteMapBodyInputs == { Text(b) : b \in Bodies(RouteMapBodyPool, MaxRouteMapBody) }

\* the most lines the body of an order input text has
MaxOrderBody == 2

\* the lines the order input texts are made of: lines for each of the six
\* extractors
OrderPool ==
    { "ip prefix-list P1",
      "ip community-list X permit 65000:1",
      "ip access-list ACL1",
      "ip as-path access-list AP1 permit ^65001_",
      "route-map RM1 permit 10",
      "router bgp 65000" }

\* a text with lines for each of the six extractors, the route map naming
\* lists the text defines
OrderFile ==
    << "ip prefix-list P1",
       "   seq 10 permit 10.0.0.0/8",
       "!",
       "ip community-list X permit 65000:1",
       "ip access-list ACL1",
       "   10 permit ip any any",
       "!",
       "ip as-path access-list AP1 permit ^65001_",
       "route-map RM1 permit 10",
       "   match ip address prefix-list P1",
       "   match community-list X",
       "   match as-path AP1",
       "router bgp 65000",
       "   router-id 1.1.1.1",
       "   neighbor 10.0.0.1 remote-as 65001" >>

\* the order input texts
OrderInputs ==
    { Text(b) : b \in Bodies(OrderPool, MaxOrderBody) } \cup { Text(OrderFile) }

\* the most lines the body of a cursor input text has
MaxCursorBody == 3

\* the lines the cursor input texts are made of: headers of the three scans
\* that have a sub-scan, lines their sub-scans read, and a `!` line
CursorPool ==
    { "ip prefix-list P1",
      "   seq 10 permit 10.0.0.0/8",
      "!",
      "ip access-list ACL1",
      "route-map RM1 permit 10",
      "   match as-path AP1" }

\* the cursor input texts
CursorInputs ==
    { Text(b) : b \in Bodies(CursorPool, MaxCursorBody) } \cup { Text(OrderFile) }

\* the most body lines an IP input text has
MaxIpBody == 3

\* the lines of a BGP block that the IP input texts are made of: lines for
\* 10.0.0.1 and for 10.0.0.10, which begins with it, at three spaces and at
\* six, and a vrf line
IpPool ==
    { "   neighbor 10.0.0.1 remote-as 65001",
      "   neighbor 10.0.0.10 remote-as 65010",
      "   neighbor 10.0.0.10 description ten",
      "   vrf A",
      "      neighbor 10.0.0.1 remote-as 65101",
      "      neighbor 10.0.0.10 remote-as 65110",
      "      neighbor 10.0.0.10 description vten" }

\* the IP input texts: a `router bgp` line and a body of IP lines
IpInputs == { Text(<< "router bgp 65000" >> \o b) : b \in Bodies(IpPool, MaxIpBody) }

\* an AristaBGPParser object after its construction
NewParser ==
    [ pc                  |-> "idle",
      content             |-> "",
      lines               |-> << >>,
      bgp_config          |-> reset(EmptyConfig),
      i                   |-> 0,
      processed_neighbors |-> {},
      iters               |-> 0,
      overlapped          |-> FALSE ]

\* the JSON of a generate request that selects nothing
NoSelection ==
    [ neighbors |-> << >>, routeMaps |-> << >>, prefixLists |-> << >>,
      communityLists |-> << >> ]

\* the server before its first connection: no request, nothing sent, no
\* Configuration returned to the client
Listening ==
    [ phase    |-> "listening",
      parser   |-> reset(EmptyConfig),
      path     |-> "",
      data     |-> NoSelection,
      status   |-> 0,
      body     |-> << >>,
      uploaded |-> << >> ]

\* the state after AristaBGPParser()
Init ==
    /\ pc = "idle"
    /\ content = ""
    /\ lines = << >>
    /\ bgp_config = reset(EmptyConfig)
    /\ i = 0
    /\ processed_neighbors = {}
    /\ rescans = << >>
    /\ iters = 0
    /\ reused = FALSE
    /\ peer = NewParser
    /\ web = Listening

\* parse_config is called: self.reset()
Reset ==
    /\ pc \in {"idle", "done"}
    /\ pc' = "reset"
    /\ bgp_config' = reset(bgp_config)
    /\ content' = ""
    /\ lines' = << >>
    /\ i' = 0
    /\ processed_neighbors' = {}
    /\ rescans' = << >>
    /\ iters' = 0
    /\ reused' = (pc = "done")
    /\ UNCHANGED << peer, web >>

\* the parser's variables set from a record of their values
Store(r) ==
    /\ pc' = r.pc
    /\ bgp_config' = r.cfg
    /\ i' = r.i

\* parse_config(text) from the normaliser to the entry of _parse_bgp_block
StoreLines(text, ls) ==
    /\ content' = text
    /\ lines' = ls
    /\ Store(ParseLines(bgp_config, ls))

\* parse_config(text) after its reset, up to the entry of _parse_bgp_block
Scan(text) ==
    /\ pc = "reset"
    /\ StoreLines(text, Normalize(text))
    /\ UNCHANGED << processed_neighbors, rescans, iters, reused, peer, web >>

\* the parser's variables after an iteration with outcome r
StoreIteration(r) ==
    /\ Store([pc  |-> IF r.raised THEN "error" ELSE IF r.brk THEN "done" ELSE "bgp_block",
              cfg |-> r.cfg,
              i   |-> r.i])
    /\ processed_neighbors' = r.processed_neighbors
    /\ rescans' = rescans \o r.calls

\* one evaluation of `while i < len(lines)` in _parse_bgp_block and of the
\* loop body
BgpBlockStep ==
    /\ pc = "bgp_block"
    /\ iters < IterationCap(lines)
    /\ iters' = iters + 1
    /\ IF i >= Len(lines)
       THEN /\ pc' = "done"
            /\ UNCHANGED << bgp_config, i, processed_neighbors, rescans >>
       ELSE StoreIteration(BlockIteration(lines, i, processed_neighbors, bgp_config))
    /\ UNCHANGED << content, lines, reused, peer, web >>

\* the first parse_config call on a parser, with a text of Inputs
FirstCall == ~reused /\ \E text \in Inputs : Scan(text)

\* a later parse_config call on a parser, with a text of LaterInputs
LaterCall == reused /\ \E text \in LaterInputs : Scan(text)

Next ==
    \/ Reset
    \/ FirstCall
    \/ LaterCall
    \/ BgpBlockStep

Spec == Init /\ [][Next]_vars

\* a parse_config call with a text of FlatInputs
FlatCall == \E text \in FlatInputs : Scan(text)

NextFlat ==
    \/ Reset
    \/ FlatCall
    \/ BgpBlockStep

SpecFlat == Init /\ [][NextFlat]_vars

\* a parse_config call with a text of ListInputs
ListCall == \E text \in ListInputs : Scan(text)

NextLists ==
    \/ Reset
    \/ ListCall
    \/ BgpBlockStep

SpecLists == Init /\ [][NextLists]_vars

\* a parse_config call with a text of RawInputs
RawCall == \E text \in RawInputs : Scan(text)

NextRaw ==
    \/ Reset
    \/ RawCall
    \/ BgpBlockStep

SpecRaw == Init /\ [][NextRaw]_vars

\* a parse_config call with a text of VrfInputs
VrfCall == \E text \in VrfInputs : Scan(text)

NextVrf ==
    \/ Reset
    \/ VrfCall
    \/ BgpBlockStep

SpecVrf == Init /\ [][NextVrf]_vars

\* a parse_config call with a text of GroupInputs
GroupCall == \E text \in GroupInputs : Scan(text)

NextGroups ==
    \/ Reset
    \/ GroupCall
    \/ BgpBlockStep

SpecGroups == Init /\ [][NextGroups]_vars

\* a parse_config call with a text of FragmentInputs
FragmentCall == \E text \in FragmentInputs : Scan(text)

NextFragments ==
    \/ Reset
    \/ FragmentCall
    \/ BgpBlockStep

SpecFragments == Init /\ [][NextFragments]_vars

\* a parse_config call with a text of SeqInputs, which has no `router bgp`
\* line: the call returns without entering _parse_bgp_block
SeqCall == \E text \in SeqInputs : Scan(text)

NextSeq ==
    \/ Reset
    \/ SeqCall

SpecSeq == Init /\ [][NextSeq]_vars

\* a parse_config call with a text of CommunityInputs, which has no
\* `router bgp` line
CommunityCall == \E text \in CommunityInputs : Scan(text)

NextCommunity ==
    \/ Reset
    \/ CommunityCall

SpecCommunity == Init /\ [][NextCommunity]_vars

\* a parse_config call with a text of AsPathInputs, which has no `router bgp`
\* line
AsPathCall == \E text \in AsPathInputs : Scan(text)

NextAsPath ==
    \/ Reset
    \/ AsPathCall

SpecAsPath == Init /\ [][NextAsPath]_vars

\* a parse_config call with a text of AccessInputs, which has no `router bgp`
\* line
AccessCall == \E text \in AccessInputs : Scan(text)

NextAccess ==
    \/ Reset
    \/ AccessCall

SpecAccess == Init /\ [][NextAccess]_vars

\* a parse_config call with a text of RouteMapBodyInputs, which has no
\* `router bgp` line
RouteMapBodyCall == \E text \in RouteMapBodyInputs : Scan(text)

NextRouteMapBody ==
    \/ Reset
    \/ RouteMapBodyCall

SpecRouteMapBody == Init /\ [][NextRouteMapBody]_vars

\* a parse_config call with a text of OrderInputs
OrderCall == \E text \in OrderInputs : Scan(text)

NextOrder ==
    \/ Reset
    \/ OrderCall
    \/ BgpBlockStep

SpecOrder == Init /\ [][NextOrder]_vars

\* a parse_config call with a text of IpInputs
IpCall == \E text \in IpInputs : Scan(text)

NextIp ==
    \/ Reset
    \/ IpCall
    \/ BgpBlockStep

SpecIp == Init /\ [][NextIp]_vars

\* one of the five flat scans is running
FlatScanning == \E k \in 1..Len(FlatScans) : pc = FlatScans[k]

\* parse_config(text) after its reset, up to the entry of
\* _parse_prefix_lists
CursorScan(text) ==
    /\ pc = "reset"
    /\ content' = text
    /\ lines' = Normalize(text)
    /\ pc' = FlatScans[1]
    /\ i' = 0
    /\ UNCHANGED << bgp_config, processed_neighbors, rescans, iters, reused, peer, web >>

\* one evaluation of `while i < len(lines)` in the k-th flat scan and of the
\* loop body, iters counting the iterations of the scan; when the test fails
\* the scan returns and parse_config calls the next one, _parse_bgp_section
\* after the fifth
FlatScanIteration(k) ==
    IF i < Len(lines)
    THEN /\ pc' = pc
         /\ i' = ScanIteration(k, lines, i, bgp_config).i
         /\ bgp_config' = ScanIteration(k, lines, i, bgp_config).cfg
         /\ iters' = iters + 1
    ELSE IF k < Len(FlatScans)
    THEN /\ pc' = FlatScans[k + 1]
         /\ i' = 0
         /\ iters' = 0
         /\ UNCHANGED bgp_config
    ELSE /\ Store(_parse_bgp_section(bgp_config, lines, FindBgpLine(lines, 0)))
         /\ iters' = 0

FlatScanStep ==
    /\ FlatScanning
    /\ FlatScanIteration(CHOOSE k \in 1..Len(FlatScans) : pc = FlatScans[k])
    /\ UNCHANGED << content, lines, processed_neighbors, rescans, reused, peer, web >>

\* a parse_config call with a text of CursorInputs
CursorCall == \E text \in CursorInputs : CursorScan(text)

NextCursor ==
    \/ Reset
    \/ CursorCall
    \/ FlatScanStep
    \/ BgpBlockStep

SpecCursor == Init /\ [][NextCursor]_vars

(***************************************************************************)
(* Two parser objects, their calls interleaved                             *)
(***************************************************************************)

\* the variables of the first parser
parser_vars ==
    << pc, content, lines, bgp_config, i, processed_neighbors, rescans, iters, reused >>

\* the dictionary both objects use: bgp_config as an attribute of the class
SharedConfig(own, other) == other

\* self.bgp_config in a method of the object whose attribute is own, other
\* being the attribute of the other object
SelfConfig(own, other) == own

\* the input texts of the two parsers
PairInputs ==
    { EndToEnd,
      Text(DanglingLines),
      Text(<< "router bgp 65001", "   neighbor 10.0.0.1 remote-as 65001" >>),
      Text(<< "router bgp 65000", "   vrf A" >>) }

\* a call on the first parser is running
CallRunning == pc \in {"reset", "bgp_block"}

\* parse_config is called on the second parser: self.reset()
PeerReset ==
    /\ peer.pc \in {"idle", "done"}
    /\ peer' = [NewParser EXCEPT !.pc = "reset",
                                 !.bgp_config = reset(peer.bgp_config),
                                 !.overlapped = CallRunning]
    /\ UNCHANGED << parser_vars, web >>

\* the second parser after parse_config(text) has normalised text to ls and
\* stands as r at the entry of _parse_bgp_block
PeerStoreLines(text, ls, r) ==
    peer' = [peer EXCEPT !.content = text, !.lines = ls, !.pc = r.pc,
                         !.bgp_config = r.cfg, !.i = r.i,
                         !.overlapped = @ \/ CallRunning]

\* parse_config(text) on the second parser after its reset, up to the entry
\* of _parse_bgp_block
PeerScanLines(text, ls) ==
    PeerStoreLines(text, ls, ParseLines(SelfConfig(peer.bgp_config, bgp_config), ls))

PeerScan(text) ==
    /\ peer.pc = "reset"
    /\ PeerScanLines(text, Normalize(text))
    /\ UNCHANGED << parser_vars, web >>

\* the second parser after an iteration with outcome r
PeerStoreIteration(r) ==
    peer' = [peer EXCEPT
                !.pc = IF r.raised THEN "error" ELSE IF r.brk THEN "done" ELSE "bgp_block",
                !.bgp_config = r.cfg,
                !.i = r.i,
                !.processed_neighbors = r.processed_neighbors,
                !.iters = @ + 1,
                !.overlapped = @ \/ CallRunning]

\* one evaluation of `while i < len(lines)` in _parse_bgp_block on the second
\* parser, and of the loop body
PeerBlockStep ==
    /\ peer.pc = "bgp_block"
    /\ peer.iters < IterationCap(peer.lines)
    /\ IF peer.i >= Len(peer.lines)
       THEN peer' = [peer EXCEPT !.pc = "done", !.iters = @ + 1,
                                 !.overlapped = @ \/ CallRunning]
       ELSE PeerStoreIteration(
                BlockIteration(peer.lines, peer.i, peer.processed_neighbors,
                               SelfConfig(peer.bgp_config, bgp_config)))
    /\ UNCHANGED << parser_vars, web >>

\* a parse_config call on the first parser with a text of PairInputs
PairCall == \E text \in PairInputs : Scan(text)

\* a parse_config call on the second parser with a text of PairInputs
PeerCall == \E text \in PairInputs : PeerScan(text)

NextPair ==
    \/ Reset
    \/ PairCall
    \/ BgpBlockStep
    \/ PeerReset
    \/ PeerCall
    \/ PeerBlockStep

SpecPair == Init /\ [][NextPair]_vars

(***************************************************************************)
(* The dictionary objects of one parser and the references a caller holds  *)
(***************************************************************************)

\* the most parse_config calls made on the parser
MaxCalls == 3

\* the input texts of the calls
ReturnedInputs ==
    { EndToEnd,
      Text(DefinitionLines),
      Text(<< "router bgp 65001", "   neighbor 10.0.0.1 remote-as 65001" >>) }

\* a reset that empties the dictionary self.bgp_config refers to and fills it
\* again: the attribute goes on referring to the object self
SameObject(self, objects) == self

\* the object the dictionary display of reset evaluates to: one that did not
\* exist before
NewObject(self, objects) == Len(objects) + 1

\* the objects after the assignment `self.bgp_config = {...}`, o the object
\* the display evaluated to and cfg its value
Assigned(objects, o, cfg) ==
    [k \in 1..(IF o > Len(objects) THEN o ELSE Len(objects)) |->
        IF k = o THEN cfg ELSE objects[k]]

\* the dictionary objects made so far, the one self.bgp_config refers to, and
\* the references parse_config has returned, each with the value its object
\* had when it was returned; the first object is made by __init__
Objects == [objects |-> << reset(EmptyConfig) >>, self |-> 1, returned |-> << >>]

\* the objects after the running call has written cfg through self.bgp_config
Written(p, cfg) == [p EXCEPT !.objects[p.self] = cfg]

\* `return self.bgp_config` when the call ended by returning
Returned(p, cfg, ended) ==
    IF ended THEN [p EXCEPT !.returned = Append(@, [object |-> p.self, value |-> cfg])]
    ELSE p

InitReturned ==
    /\ pc = "idle"
    /\ content = ""
    /\ lines = << >>
    /\ bgp_config = reset(EmptyConfig)
    /\ i = 0
    /\ processed_neighbors = {}
    /\ rescans = << >>
    /\ iters = 0
    /\ reused = FALSE
    /\ peer = Objects
    /\ web = Listening

\* parse_config is called: self.reset() binds self.bgp_config to the object
\* its dictionary display evaluates to
ReturnedReset ==
    /\ pc \in {"idle", "done"}
    /\ Len(peer.returned) < MaxCalls
    /\ pc' = "reset"
    /\ bgp_config' = reset(bgp_config)
    /\ content' = ""
    /\ lines' = << >>
    /\ i' = 0
    /\ processed_neighbors' = {}
    /\ rescans' = << >>
    /\ iters' = 0
    /\ reused' = (pc = "done")
    /\ peer' = [peer EXCEPT
                   !.self = NewObject(peer.self, peer.objects),
                   !.objects = Assigned(@, NewObject(peer.self, peer.objects), bgp_config')]
    /\ UNCHANGED web

\* parse_config(text) after its reset, up to the entry of _parse_bgp_block:
\* the extractors write through self.bgp_config
ReturnedScan(text) ==
    /\ pc = "reset"
    /\ StoreLines(text, Normalize(text))
    /\ peer' = Returned(Written(peer, bgp_config'), bgp_config', pc' = "done")
    /\ UNCHANGED << processed_neighbors, rescans, iters, reused, web >>

\* one evaluation of `while i < len(lines)` in _parse_bgp_block and of the
\* loop body, which writes through self.bgp_config
ReturnedBlockStep ==
    /\ pc = "bgp_block"
    /\ iters < IterationCap(lines)
    /\ iters' = iters + 1
    /\ IF i >= Len(lines)
       THEN /\ pc' = "done"
            /\ UNCHANGED << bgp_config, i, processed_neighbors, rescans >>
       ELSE StoreIteration(BlockIteration(lines, i, processed_neighbors, bgp_config))
    /\ peer' = Returned(Written(peer, bgp_config'), bgp_config', pc' = "done")
    /\ UNCHANGED << content, lines, reused, web >>

\* a parse_config call with a text of ReturnedInputs
ReturnedCall == \E text \in ReturnedInputs : ReturnedScan(text)

NextReturned ==
    \/ ReturnedReset
    \/ ReturnedCall
    \/ ReturnedBlockStep

SpecReturned == InitReturned /\ [][NextReturned]_vars

(***************************************************************************)
(* AristaBGPWebHandler: _handle_config_generation                          *)
(***************************************************************************)

\* the position of the first record with the ip; 0 when there is none
IndexOfIp(records, ip) ==
    IF \E k \in 1..Len(records) : records[k].ip = ip
    THEN CHOOSE k \in 1..Len(records) :
             /\ records[k].ip = ip
             /\ \A j \in 1..(k - 1) : records[j].ip # ip
    ELSE 0

\* each element of seq with prefix before it
Prefixed(prefix, seq) == [k \in 1..Len(seq) |-> prefix \o seq[k]]

RECURSIVE PrefixListLines(_, _)
\* the lines of the selected prefix lists
PrefixListLines(cfg, prefix_lists) ==
    IF prefix_lists = << >> THEN << >>
    ELSE (IF Head(prefix_lists) \in DOMAIN cfg.prefixLists
          THEN Prefixed("ip prefix-list " \o Head(prefix_lists) \o " ",
                        cfg.prefixLists[Head(prefix_lists)]) \o << "!" >>
          ELSE << >>)
         \o PrefixListLines(cfg, Tail(prefix_lists))

\* the lines of the community list at position found and called community_name
CommunityLines(cfg, community_name, found) ==
    IF found = 0 THEN << >>
    ELSE Prefixed("ip community-list " \o community_name \o " permit ",
                  cfg.communityLists[found].communities) \o << "!" >>

RECURSIVE CommunityListLines(_, _)
\* the lines of the selected community lists
CommunityListLines(cfg, community_lists) ==
    IF community_lists = << >> THEN << >>
    ELSE CommunityLines(cfg, Head(community_lists),
                        IndexOfName(cfg.communityLists, Head(community_lists)))
         \o CommunityListLines(cfg, Tail(community_lists))

RECURSIVE EveryRouteMapLines(_, _, _)
\* the lines of every route map called route_map_name, from position found on
EveryRouteMapLines(cfg, route_map_name, found) ==
    IF found = 0 \/ found > Len(cfg.routeMaps) THEN << >>
    ELSE ( IF cfg.routeMaps[found].name # route_map_name THEN << >>
           ELSE << "route-map " \o route_map_name \o " "
                      \o cfg.routeMaps[found].action
                      \o " " \o cfg.routeMaps[found].sequence >>
                \o cfg.routeMaps[found].lines \o << "!" >> )
         \o EveryRouteMapLines(cfg, route_map_name, found + 1)

\* the lines of the route map at position found and called route_map_name
OneRouteMapLines(cfg, route_map_name, found) ==
    IF found = 0 THEN << >>
    ELSE << "route-map " \o route_map_name \o " " \o cfg.routeMaps[found].action
               \o " " \o cfg.routeMaps[found].sequence >>
         \o cfg.routeMaps[found].lines \o << "!" >>

RECURSIVE RouteMapLines(_, _)
\* the lines of the selected route maps
RouteMapLines(cfg, route_maps) ==
    IF route_maps = << >> THEN << >>
    ELSE OneRouteMapLines(cfg, Head(route_maps),
                          IndexOfName(cfg.routeMaps, Head(route_maps)))
         \o RouteMapLines(cfg, Tail(route_maps))

\* neighbor_key.split('@') does not unpack into neighbor_ip and context
BadKey(neighbor_key) == Len(SplitOn(neighbor_key, "@")) # 2

\* config_line.strip() is not empty
HasText(config_line) == Strip(config_line) # ""

\* the indentation of the fragments of a global neighbor
GlobalIndent == "  "

\* the fragments of a VRF neighbor indented as those of a global neighbor
VrfIndentAsGlobal == "  "

\* the indentation of the fragments of a VRF neighbor
VrfIndent == "   "

\* the neighbors of records that the keys for context select, in key order
RECURSIVE SelectedIn(_, _, _)
SelectedIn(records, context, neighbors) ==
    IF neighbors = << >> THEN << >>
    ELSE (IF /\ SplitOn(Head(neighbors), "@")[2] = context
             /\ IndexOfIp(records, SplitOn(Head(neighbors), "@")[1]) # 0
          THEN << records[IndexOfIp(records, SplitOn(Head(neighbors), "@")[1])] >>
          ELSE << >>)
         \o SelectedIn(records, context, Tail(neighbors))

RECURSIVE GlobalNeighborLines(_)
\* the lines of the selected global neighbors
GlobalNeighborLines(global_neighbors) ==
    IF global_neighbors = << >> THEN << >>
    ELSE << " neighbor " \o Head(global_neighbors).ip >>
         \o Prefixed(GlobalIndent, SelectSeq(Head(global_neighbors).configs, HasText))
         \o << " !" >>
         \o GlobalNeighborLines(Tail(global_neighbors))

RECURSIVE VrfNeighborLines(_)
\* the lines of the selected neighbors of one VRF
VrfNeighborLines(neighbors) ==
    IF neighbors = << >> THEN << >>
    ELSE << "  neighbor " \o Head(neighbors).ip >>
         \o Prefixed(VrfIndent, SelectSeq(Head(neighbors).configs, HasText))
         \o << "  !" >>
         \o VrfNeighborLines(Tail(neighbors))

RECURSIVE VrfContexts(_, _, _)
\* the keys of the dictionary vrf_neighbors in the order they were inserted:
\* the contexts other than Global of the keys that name a neighbor of a Vrf
\* record, seen being those inserted before
VrfContexts(cfg, neighbors, seen) ==
    IF neighbors = << >> THEN << >>
    ELSE LET context == SplitOn(Head(neighbors), "@")[2]
             vrf     == IndexOfName(cfg.vrfs, context)
         IN  IF /\ context # "Global"
                /\ context \notin seen
                /\ vrf # 0
                /\ IndexOfIp(cfg.vrfs[vrf].neighbors, SplitOn(Head(neighbors), "@")[1]) # 0
             THEN << context >> \o VrfContexts(cfg, Tail(neighbors), seen \cup {context})
             ELSE VrfContexts(cfg, Tail(neighbors), seen)

\* the block of the VRF record vrf with the neighbors the keys select
OneVrfLines(vrf, neighbors) ==
    << " vrf " \o vrf.name >>
    \o (IF vrf.rd # "" THEN << "  rd " \o vrf.rd >> ELSE << >>)
    \o VrfNeighborLines(SelectedIn(vrf.neighbors, vrf.name, neighbors))
    \o << " !" >>

RECURSIVE VrfLines(_, _, _)
\* the blocks of the VRFs named contexts
VrfLines(cfg, contexts, neighbors) ==
    IF contexts = << >> THEN << >>
    ELSE OneVrfLines(cfg.vrfs[IndexOfName(cfg.vrfs, Head(contexts))], neighbors)
         \o VrfLines(cfg, Tail(contexts), neighbors)

\* the `router bgp` section for the selected neighbors
BgpSectionLines(cfg, neighbors) ==
    IF neighbors = << >> THEN << >>
    ELSE << "router bgp " \o cfg.asNumber, " router-id " \o cfg.routerId >>
         \o GlobalNeighborLines(SelectedIn(cfg.globalNeighbors, "Global", neighbors))
         \o VrfLines(cfg, VrfContexts(cfg, neighbors, {}), neighbors)
         \o << "!" >>

\* the three lines every generated configuration begins with, now being
\* datetime.now() as text
Preamble(now) ==
    << "! Generated Arista EOS BGP Configuration", "! Generated on: " \o now, "!" >>

\* config_lines with the `router bgp` section put before the lists
GeneratedLinesBgpFirst(cfg, data, now) ==
    Preamble(now)
    \o BgpSectionLines(cfg, data.neighbors)
    \o PrefixListLines(cfg, data.prefixLists)
    \o CommunityListLines(cfg, data.communityLists)
    \o RouteMapLines(cfg, data.routeMaps)

\* config_lines when no statement raises
GeneratedLines(cfg, data, now) ==
    Preamble(now)
    \o PrefixListLines(cfg, data.prefixLists)
    \o CommunityListLines(cfg, data.communityLists)
    \o RouteMapLines(cfg, data.routeMaps)
    \o BgpSectionLines(cfg, data.neighbors)

\* the response of _handle_config_generation on a handler whose parser holds
\* cfg: status 500 when unpacking a key raised, else the generated lines
_handle_config_generation(cfg, data, now) ==
    IF \E k \in 1..Len(data.neighbors) : BadKey(data.neighbors[k])
    THEN [status |-> 500, body |-> << >>]
    ELSE [status |-> 200, body |-> GeneratedLines(cfg, data, now)]

(***************************************************************************)
(* AristaBGPWebHandler: the requests                                       *)
(***************************************************************************)

\* the file part of the upload without its trailing carriage returns and
\* newlines: part[content_start:].rstrip(b'\r\n')
FileContent(file) ==
    SubSeq(file, 1,
           CHOOSE k \in 0..Len(file) :
               /\ \A j \in (k + 1)..Len(file) : Char(file, j) \in {"\r", "\n"}
               /\ k = 0 \/ Char(file, k) \notin {"\r", "\n"})

\* the server after _handle_file_upload whose parse_config call ended as r
AfterUpload(r) ==
    IF r.pc = "bgp_block"
    THEN [web EXCEPT !.phase = "hung", !.path = "/upload", !.parser = r.cfg]
    ELSE IF r.pc = "error"
    THEN [web EXCEPT !.phase = "finished", !.path = "/upload", !.parser = r.cfg,
                     !.status = 500]
    ELSE [web EXCEPT !.phase = "finished", !.path = "/upload", !.parser = r.cfg,
                     !.status = 200, !.uploaded = << r.cfg >>]

\* _handle_file_upload for the file content file_content
_handle_file_upload(file_content) ==
    IF file_content = ""
    THEN [web EXCEPT !.phase = "finished", !.path = "/upload", !.status = 400]
    ELSE AfterUpload(parse_config(web.parser, file_content))

\* the server after _handle_config_generation responded with response
AfterGeneration(data, response) ==
    [web EXCEPT !.phase = "finished", !.path = "/generate", !.data = data,
                !.status = response.status, !.body = response.body]

\* the server accepts a connection and constructs the handler object for it:
\* self.parser = AristaBGPParser()
Accept ==
    /\ web.phase \in {"listening", "finished"}
    /\ web' = [web EXCEPT !.phase = "handling", !.parser = NewParser.bgp_config,
                          !.path = "", !.data = NoSelection, !.status = 0,
                          !.body = << >>]
    /\ UNCHANGED << parser_vars, peer >>

\* the handler serves POST /upload with the file
Upload(file) ==
    /\ web.phase = "handling"
    /\ web' = _handle_file_upload(FileContent(file))
    /\ UNCHANGED << parser_vars, peer >>

\* the handler serves POST /generate with the JSON data at the time now
Generate(data, now) ==
    /\ web.phase = "handling"
    /\ web' = AfterGeneration(data, _handle_config_generation(web.parser, data, now))
    /\ UNCHANGED << parser_vars, peer >>

\* a configuration file with two prefix lists, a community list, a route
\* map of two sequences, two global neighbors and two VRFs
FullFile ==
    Text(<< "ip prefix-list P1",
            "   seq 10 permit 10.0.0.0/8",
            "   seq 20 deny 10.1.0.0/16 le 24",
            "ip prefix-list P2",
            "   seq 10 permit 10.2.0.0/16",
            "ip community-list X permit 65000:1 65000:2",
            "route-map RM1 permit 10",
            "   match ip address prefix-list P1",
            "route-map RM1 permit 20",
            "   match community-list X",
            "router bgp 65000",
            "   router-id 1.1.1.1",
            "   neighbor 10.0.0.1 remote-as 65001",
            "   neighbor 10.0.0.5 remote-as 65005",
            "   neighbor 10.0.0.1 route-map RM1 in",
            "   vrf A",
            "      rd 100:1",
            "      neighbor 10.0.0.2 remote-as 65002",
            "      neighbor 10.0.0.2 description \"Peer A\"",
            "      neighbor 10.0.0.3 remote-as 65003",
            "   vrf B",
            "      neighbor 10.0.0.4 remote-as 65004" >>)

\* the files of the upload requests: the configuration file, the end-to-end
\* scenario, a file without BGP block, a file the block scan does not return
\* on and the empty file
Files ==
    { FullFile,
      EndToEnd,
      Text(<< "ip prefix-list P1", "   seq 10 permit 10.0.0.0/8" >>),
      Text(<< "router bgp 65000", "   vrf A" >>),
      "\r\n" }

\* the selections of neighbor keys of the generate requests: none, a global
\* neighbor, VRF neighbors of two VRFs in mixed order, global and VRF
\* neighbors, keys that name no neighbor, and a key without scope
NeighborSelections ==
    { << >>,
      << "10.0.0.1@Global" >>,
      << "10.0.0.2@A", "10.0.0.4@B", "10.0.0.3@A" >>,
      << "10.0.0.2@A", "10.0.0.5@Global", "10.0.0.1@Global" >>,
      << "10.0.0.9@Global", "10.0.0.1@C" >>,
      << "10.0.0.1" >> }

\* the JSON data of the generate requests
Selections ==
    [ neighbors      : NeighborSelections,
      routeMaps      : { << >>, << "RM1" >> },
      prefixLists    : { << >>, << "P1" >>, << "P2", "P9", "P1" >> },
      communityLists : { << >>, << "X" >> } ]

\* the values of datetime.now() as text
Clock == { "2026-01-01 00:00:00" }

\* a POST /upload request
UploadRequest == \E file \in Files : Upload(file)

\* a POST /generate request
GenerateRequest == \E data \in Selections, now \in Clock : Generate(data, now)

NextWeb ==
    \/ Accept
    \/ UploadRequest
    \/ GenerateRequest

SpecWeb == Init /\ [][NextWeb]_vars

\* the Configurations of the files on which parse_config returns
Configurations ==
    { parse_config(EmptyConfig, FileContent(file)).cfg :
        file \in { f \in Files : parse_config(EmptyConfig, FileContent(f)).pc = "done" } }

\* _handle_config_generation as a function of the Configuration that the
\* handler's parser holds and of the request: a handler object whose parser
\* holds a Configuration of Configurations, before it serves its request
InitGenerate ==
    /\ pc = "idle"
    /\ content = ""
    /\ lines = << >>
    /\ bgp_config = reset(EmptyConfig)
    /\ i = 0
    /\ processed_neighbors = {}
    /\ rescans = << >>
    /\ iters = 0
    /\ reused = FALSE
    /\ peer = NewParser
    /\ \E cfg \in Configurations :
          web = [Listening EXCEPT !.phase = "handling", !.parser = cfg]

NextGenerate == GenerateRequest

SpecGenerate == InitGenerate /\ [][NextGenerate]_vars

(***************************************************************************)
(* Notions the properties are stated in                                    *)
(***************************************************************************)

\* the 0-based indices of the lines ls
Indices(ls) == 0 .. Len(ls) - 1

\* no two elements of seq are equal
Distinct(seq) == \A a, b \in 1..Len(seq) : a # b => seq[a] # seq[b]

\* the ip of each record of neighbors
Ips(neighbors) == [k \in 1..Len(neighbors) |-> neighbors[k].ip]

\* the elements of seq
Range(seq) == { seq[k] : k \in 1..Len(seq) }

RECURSIVE IsSubsequence(_, _)
\* the elements of a occur in b, in the order of a
IsSubsequence(a, b) ==
    IF a = << >> THEN TRUE
    ELSE IF b = << >> THEN FALSE
    ELSE IF Head(a) = Head(b) THEN IsSubsequence(Tail(a), Tail(b))
    ELSE IsSubsequence(a, Tail(b))

\* the Neighbor records of a Configuration, global and of every Vrf
AllNeighbors(cfg) ==
    Range(cfg.globalNeighbors)
        \cup UNION { Range(cfg.vrfs[v].neighbors) : v \in 1..Len(cfg.vrfs) }

\* the fields of a Configuration that the BGP block gives
BgpFields(cfg) ==
    << cfg.asNumber, cfg.routerId, cfg.globalNeighbors, cfg.peerGroups, cfg.vrfs >>

\* line begins with `router bgp <AS>`, indentation aside
IsRouterBgpLine(line) == StartsWith(Strip(line), "router bgp ")

\* the index of the line that opens the BGP block of ls; Len(ls) when no
\* line does
BlockStart(ls) ==
    IF \E k \in Indices(ls) : IsRouterBgpLine(At(ls, k))
    THEN CHOOSE k \in Indices(ls) :
            /\ IsRouterBgpLine(At(ls, k))
            /\ \A j \in 0 .. k - 1 : ~IsRouterBgpLine(At(ls, j))
    ELSE Len(ls)

\* a column-0 line that is not a `!` comment and not a `router bgp` line
EndsBlock(line) ==
    /\ Char(line, 1) \notin WhiteSpace \cup {"!"}
    /\ ~StartsWith(line, "router bgp")

\* the index of the first line after the opening line that ends the BGP
\* block of ls; Len(ls) when no line does
BlockEnd(ls) ==
    IF \E k \in BlockStart(ls) + 1 .. Len(ls) - 1 : EndsBlock(At(ls, k))
    THEN CHOOSE k \in BlockStart(ls) + 1 .. Len(ls) - 1 :
            /\ EndsBlock(At(ls, k))
            /\ \A j \in BlockStart(ls) + 1 .. k - 1 : ~EndsBlock(At(ls, j))
    ELSE Len(ls)

\* the indices of the lines of the BGP block of ls after its opening line
BlockBody(ls) == BlockStart(ls) + 1 .. BlockEnd(ls) - 1

\* line is `neighbor <ip> <config>` at the indentation indent
IsNeighborLine(line, indent, ip) == StartsWith(line, indent \o "neighbor " \o ip \o " ")

\* the <config> of a `neighbor <ip> <config>` line
Fragment(line, ip) == Strip(From(Strip(line), Len("neighbor " \o ip \o " ") + 1))

\* the IPs the `neighbor` lines of ls name
NeighborIps(ls) ==
    { Split(At(ls, k))[2] : k \in { j \in Indices(ls) :
                                      /\ Len(Split(At(ls, j))) >= 2
                                      /\ Split(At(ls, j))[1] = "neighbor"
                                      /\ IsIP(Split(At(ls, j))[2]) } }

RECURSIVE FragmentsFrom(_, _, _, _)
\* the fragments of the lines of ls from index k to the end of the BGP block
\* that are `neighbor <ip> <config>` at the indentation indent, in source
\* order
FragmentsFrom(ls, k, indent, ip) ==
    IF k >= BlockEnd(ls) THEN << >>
    ELSE (IF IsNeighborLine(At(ls, k), indent, ip)
          THEN << Fragment(At(ls, k), ip) >> ELSE << >>)
         \o FragmentsFrom(ls, k + 1, indent, ip)

\* the fragments of the three-space lines of the BGP block for ip
GlobalFragments(ls, ip) == FragmentsFrom(ls, BlockStart(ls) + 1, "   ", ip)

(***************************************************************************)
(* Properties                                                              *)
(***************************************************************************)

\* C1: parse_config terminates on every finite input: every iteration of the
\* BGP block scan that stays in the scan moves it on, with the cursor its
\* sub-scan handed back beyond the line it examined or, at the same line, one
\* more neighbor IP marked processed, so that the scan reaches the end of the
\* line sequence or of the BGP block.
C1_ScanMovesOn ==
    [][(pc = "bgp_block" /\ pc' = "bgp_block")
          => \/ i' > i
             \/ i' = i /\ processed_neighbors' # processed_neighbors]_vars

\* a directive line with fewer tokens than its directive requires
ShortAsPath(line) ==
    StartsWith(Strip(line), "ip as-path access-list ") /\ Len(Split(line)) < 6

FullAsPath(line) ==
    StartsWith(Strip(line), "ip as-path access-list ") /\ Len(Split(line)) >= 6

ShortRouteMap(line) == StartsWith(Strip(line), "route-map ") /\ Len(Split(line)) < 4

FullRouteMap(line) == StartsWith(Strip(line), "route-map ") /\ Len(Split(line)) >= 4

RECURSIVE PathCount(_)
\* the number of path patterns in the as-path sets
PathCount(sets) ==
    IF sets = << >> THEN 0 ELSE Len(Head(sets).paths) + PathCount(Tail(sets))

\* C2: parse_config never ends in an error state, and a directive line with
\* too few tokens is skipped while scanning continues: the returned as-path
\* sets hold exactly one pattern per as-path line of at least 6 tokens, each
\* taken from such a line, and the returned route maps are, in order, those
\* of the route-map headers of at least 4 tokens, with no short header kept
\* among their lines.
C2_ShortDirectivesSkipped ==
    /\ pc # "error"
    /\ pc = "done" =>
         /\ PathCount(bgp_config.asPathSets) = Len(SelectSeq(lines, FullAsPath))
         /\ \A s \in Range(bgp_config.asPathSets) : \A p \in Range(s.paths) :
               \E l \in Range(lines) :
                  /\ FullAsPath(l)
                  /\ Split(l)[4] = s.name
                  /\ Join(SubSeq(Split(l), 6, Len(Split(l))), " ") = p
         /\ Len(bgp_config.routeMaps) = Len(SelectSeq(lines, FullRouteMap))
         /\ \A k \in 1..Len(bgp_config.routeMaps) :
               /\ bgp_config.routeMaps[k].name = Split(SelectSeq(lines, FullRouteMap)[k])[2]
               /\ bgp_config.routeMaps[k].action = Split(SelectSeq(lines, FullRouteMap)[k])[3]
               /\ bgp_config.routeMaps[k].sequence = Split(SelectSeq(lines, FullRouteMap)[k])[4]
               /\ \A l \in Range(bgp_config.routeMaps[k].lines) : ~ShortRouteMap(l)

\* a parse that returned for a text with a short as-path line and with a
\* short route-map header before a full one
C2_Witness ==
    /\ pc = "done"
    /\ \E k \in Indices(lines) : ShortAsPath(At(lines, k))
    /\ \E j, k \in Indices(lines) :
          j < k /\ ShortRouteMap(At(lines, j)) /\ FullRouteMap(At(lines, k))
    /\ Len(bgp_config.routeMaps) = 1

\* C3: parsing the seven-line end-to-end input yields asNumber 65000,
\* routerId 1.1.1.1, exactly one global neighbor 10.0.0.1 with remoteAs 65001
\* and description Peer A, and exactly one VRF CUSTOMER_A with rd 100:1 and
\* exactly one neighbor 10.0.0.2 with remoteAs 65002.
C3_EndToEnd ==
    (pc = "done" /\ content = EndToEnd) =>
        /\ bgp_config.asNumber = "65000"
        /\ bgp_config.routerId = "1.1.1.1"
        /\ Len(bgp_config.globalNeighbors) = 1
        /\ bgp_config.globalNeighbors[1].ip = "10.0.0.1"
        /\ bgp_config.globalNeighbors[1].remoteAs = "65001"
        /\ bgp_config.globalNeighbors[1].description = "Peer A"
        /\ Len(bgp_config.vrfs) = 1
        /\ bgp_config.vrfs[1].name = "CUSTOMER_A"
        /\ bgp_config.vrfs[1].rd = "100:1"
        /\ Len(bgp_config.vrfs[1].neighbors) = 1
        /\ bgp_config.vrfs[1].neighbors[1].ip = "10.0.0.2"
        /\ bgp_config.vrfs[1].neighbors[1].remoteAs = "65002"

\* the parse of the end-to-end input has returned
C3_Witness == pc = "done" /\ content = EndToEnd /\ iters > 0

\* C4: no two records of globalNeighbors have the same ip, within one Vrf
\* record no two neighbors have the same ip, and during one parse
\* _parse_neighbor_block is called at most once per IP per scope, the scopes
\* being the global scan and the scan of each Vrf record.
C4_UniquePerScope ==
    /\ Distinct(Ips(bgp_config.globalNeighbors))
    /\ \A v \in 1..Len(bgp_config.vrfs) : Distinct(Ips(bgp_config.vrfs[v].neighbors))
    /\ Distinct(rescans)

\* a parse that returned a global neighbor whose IP two lines of the block
\* name at three spaces, after one rescan for it
C4_Witness ==
    /\ pc = "done"
    /\ \E n \in Range(bgp_config.globalNeighbors) :
          /\ Len(GlobalFragments(lines, n.ip)) >= 2
          /\ << 0, n.ip >> \in Range(rescans)

\* C5: when two or more three-space `neighbor <ip> <config>` lines of the BGP
\* block name the same IP, wherever they stand in the block, the global
\* Neighbor record for that IP has in its configs the fragment of every such
\* line, in source order.
C5_AllGlobalFragments ==
    pc = "done" =>
        \A n \in Range(bgp_config.globalNeighbors) :
            Len(GlobalFragments(lines, n.ip)) >= 2
                => IsSubsequence(GlobalFragments(lines, n.ip), n.configs)

\* the indices of the three-space `vrf <name>` lines of the BGP block
VrfHeaders(ls) == { v \in BlockBody(ls) : StartsWith(At(ls, v), "   vrf ") }

\* the indices of the six-space lines that follow the vrf line at index v
\* without a less indented line between
VrfSection(ls, v) ==
    { k \in BlockBody(ls) :
        k > v /\ \A j \in v + 1 .. k : StartsWith(At(ls, j), "      ") }

\* the AS numbers of the `neighbor <ip> remote-as <AS>` lines of ls at the
\* indices ks and the indentation indent
RemoteAsAt(ls, ks, indent, ip) ==
    { Split(At(ls, k))[4] :
        k \in { j \in ks : /\ IsNeighborLine(At(ls, j), indent, ip)
                           /\ Len(Split(At(ls, j))) = 4
                           /\ Split(At(ls, j))[3] = "remote-as" } }

\* C6: a neighbor IP with a remote-as on a three-space line of the BGP block
\* and on a six-space line inside a VRF block has two records, whatever the
\* order of the line and the block: one in globalNeighbors with a remote-as
\* of the three-space lines and one in that Vrf's neighbors with a remote-as
\* of the six-space lines of the VRF block.
C6_GlobalAndVrfRecords ==
    pc = "done" =>
        \A v \in VrfHeaders(lines) : \A ip \in NeighborIps(lines) :
            ( /\ RemoteAsAt(lines, BlockBody(lines), "   ", ip) # {}
              /\ RemoteAsAt(lines, VrfSection(lines, v), "      ", ip) # {} )
            => /\ \E n \in Range(bgp_config.globalNeighbors) :
                     /\ n.ip = ip
                     /\ n.remoteAs \in RemoteAsAt(lines, BlockBody(lines), "   ", ip)
               /\ \E r \in Range(bgp_config.vrfs) :
                     /\ r.name = Split(At(lines, v))[2]
                     /\ \E m \in Range(r.neighbors) :
                           /\ m.ip = ip
                           /\ m.remoteAs \in
                                 RemoteAsAt(lines, VrfSection(lines, v), "      ", ip)

\* the parse that ended as r returned, with the BGP fields that bgp_config has
SameBgpFields(r) == r.pc = "done" /\ BgpFields(bgp_config) = BgpFields(r.cfg)

SetsField(line, ip) ==
    /\ Len(Split(line)) >= 4
    /\ Split(line)[1] = "neighbor"
    /\ Split(line)[2] = ip
    /\ Split(line)[3] \in {"remote-as", "description"}

\* C8: every Neighbor record of globalNeighbors and of every Vrf has a
\* non-empty remoteAs or a non-empty description, and the IP of every record
\* is named by a line that sets one of the two fields.
C8_NeighborsRetained ==
    \A n \in AllNeighbors(bgp_config) :
        /\ n.remoteAs # "" \/ n.description # ""
        /\ \E l \in Range(lines) : SetsField(l, n.ip)

\* a parse that returned after a rescan for an IP that no line sets a field
\* of, without a record for it
C8_Witness ==
    /\ pc = "done"
    /\ \E c \in Range(rescans) :
          /\ \A l \in Range(lines) : ~SetsField(l, c[2])
          /\ \A n \in AllNeighbors(bgp_config) : n.ip # c[2]

\* text holds a line beginning with `router bgp <AS>`
HasRouterBgpLine(text) == \E l \in Range(SplitOn(text, "\n")) : IsRouterBgpLine(l)

\* C9: in every returned Configuration asNumber is non-empty exactly when the
\* input holds a line beginning with `router bgp <AS>`, and without such a
\* line routerId is empty and globalNeighbors, vrfs and peerGroups are empty.
C9_AsNumberIffRouterBgp ==
    pc = "done" =>
        IF HasRouterBgpLine(content)
        THEN bgp_config.asNumber # ""
        ELSE /\ bgp_config.asNumber = ""
             /\ bgp_config.routerId = ""
             /\ bgp_config.globalNeighbors = << >>
             /\ bgp_config.vrfs = << >>
             /\ bgp_config.peerGroups = << >>

\* a parse that returned for a text with a neighbor remote-as line, a vrf
\* line and no `router bgp <AS>` line
C9_Witness ==
    /\ pc = "done"
    /\ ~HasRouterBgpLine(content)
    /\ Contains(content, "remote-as")
    /\ Contains(content, "   vrf ")

\* C10: the Configuration a later parse_config call on a parser returns is
\* the one a fresh parser returns for that call's input alone.
C10_ReuseEqualsFresh ==
    (pc = "done" /\ reused) => bgp_config = parse_config(EmptyConfig, content).cfg

\* a later call on a parser that has returned before returns neighbors
C10_Witness ==
    /\ pc = "done"
    /\ reused
    /\ bgp_config.globalNeighbors # << >>
    /\ bgp_config.vrfs # << >>

\* line is an `ip community-list <name> ...` line
IsCommunityLine(line) == StartsWith(Strip(line), "ip community-list ")

\* the values an `ip community-list <name> permit <values>` line lists
PermitValues(line) ==
    IF Len(Split(line)) >= 4 /\ Split(line)[4] = "permit"
    THEN SubSeq(Split(line), 5, Len(Split(line)))
    ELSE << >>

RECURSIVE ValuesOf(_, _)
\* the values of the community-list lines of ls that name name, in line order
ValuesOf(ls, name) ==
    IF ls = << >> THEN << >>
    ELSE (IF IsCommunityLine(Head(ls)) /\ Split(Head(ls))[3] = name
          THEN PermitValues(Head(ls)) ELSE << >>)
         \o ValuesOf(Tail(ls), name)

\* the names of the first occurrences among names, in order
RECURSIVE FirstOccurrences(_)
FirstOccurrences(names) ==
    IF names = << >> THEN << >>
    ELSE LET front == FirstOccurrences(SubSeq(names, 1, Len(names) - 1))
         IN  IF names[Len(names)] \in Range(front) THEN front
             ELSE Append(front, names[Len(names)])

\* the name each community-list line of ls gives, in line order
CommunityLineNames(ls) ==
    LET cl == SelectSeq(ls, IsCommunityLine)
    IN  [k \in 1..Len(cl) |-> Split(cl[k])[3]]

\* C11: communityLists holds one record per distinct community-list name, in
\* the order the names first appear, and the communities of a record are the
\* values of the permit lines of its name in line order: after
\* `ip community-list X permit A` and a later `ip community-list X permit B`,
\* adjacent or not, the one record named X has A before B.
C11_CommunitiesMerged ==
    pc = "done" =>
        /\ [k \in 1..Len(bgp_config.communityLists) |-> bgp_config.communityLists[k].name]
               = FirstOccurrences(CommunityLineNames(lines))
        /\ \A r \in Range(bgp_config.communityLists) :
               r.communities = ValuesOf(lines, r.name)

\* a parse that returned for a text with two permit lines for X and a line
\* for Y between them
C11_Witness ==
    /\ pc = "done"
    /\ Len(lines) >= 3
    /\ lines[1] = "ip community-list X permit 65000:1"
    /\ lines[2] = "ip community-list Y permit 65000:1"
    /\ lines[3] = "ip community-list X permit 65000:2 65000:3"
    /\ bgp_config.communityLists[1] =
          [name |-> "X", communities |-> << "65000:1", "65000:2", "65000:3" >>]

\* line is an `ip prefix-list <name>` header
IsPrefixHeader(line) == StartsWith(Strip(line), "ip prefix-list ")

\* line is `seq <n> (permit|deny) <pattern>`
IsSeqLine(line) ==
    /\ Len(Split(line)) >= 4
    /\ Split(line)[1] = "seq"
    /\ Split(line)[3] \in {"permit", "deny"}

\* the action and pattern of a seq line: its tokens after the sequence number
SeqEntry(line) == Join(SubSeq(Split(line), 3, Len(Split(line))), " ")

RECURSIVE Captured(_, _)
\* the entries of the seq lines of ls from index k up to the next prefix-list
\* header or `!` line
Captured(ls, k) ==
    IF k >= Len(ls) THEN << >>
    ELSE IF IsPrefixHeader(At(ls, k)) \/ StartsWith(Strip(At(ls, k)), "!") THEN << >>
    ELSE (IF IsSeqLine(At(ls, k)) THEN << SeqEntry(At(ls, k)) >> ELSE << >>)
         \o Captured(ls, k + 1)

\* the indices of the headers of ls that name name
HeadersOf(ls, name) ==
    { k \in Indices(ls) : IsPrefixHeader(At(ls, k)) /\ Split(At(ls, k))[3] = name }

RECURSIVE EntriesOf(_, _, _)
\* the entries captured after each header of name at or after index k, one
\* header after the other
EntriesOf(ls, k, name) ==
    IF k >= Len(ls) THEN << >>
    ELSE (IF k \in HeadersOf(ls, name) THEN Captured(ls, k + 1) ELSE << >>)
         \o EntriesOf(ls, k + 1, name)

RefsAfter(line, kw) ==
    { Split(line)[j + 1] : j \in { m \in 1..(Len(Split(line)) - 1) : Split(line)[m] = kw } }

\* the tokens that follow kw in the lines ls
RefsIn(ls, kw) == UNION { RefsAfter(l, kw) : l \in Range(ls) }

\* C13: the prefixSets of every route-map record are exactly the
\* whitespace-delimited tokens that follow `prefix-list` in its body lines,
\* whatever whitespace surrounds them, each name once.
C13_PrefixSetsAreTokens ==
    pc = "done" =>
        \A r \in Range(bgp_config.routeMaps) : r.prefixSets = RefsIn(r.lines, "prefix-list")

\* line is a `route-map <name> (permit|deny) <sequence>` header at column 0
IsRouteMapHeader(line) == StartsWith(line, "route-map ") /\ Len(Split(line)) >= 4

RECURSIVE BodyAfter(_, _)
\* the indented lines of ls from index k up to the next unindented line
BodyAfter(ls, k) ==
    IF k >= Len(ls) THEN << >>
    ELSE IF Char(At(ls, k), 1) # " " THEN << >>
    ELSE << At(ls, k) >> \o BodyAfter(ls, k + 1)

RECURSIVE HeaderRecords(_, _)
\* name, action, sequence and body of each route-map header of ls at or
\* after index k, in file order
HeaderRecords(ls, k) ==
    IF k >= Len(ls) THEN << >>
    ELSE (IF IsRouteMapHeader(At(ls, k))
          THEN << << Split(At(ls, k))[2], Split(At(ls, k))[3], Split(At(ls, k))[4],
                     BodyAfter(ls, k + 1) >> >>
          ELSE << >>)
         \o HeaderRecords(ls, k + 1)

\* C14: routeMaps has exactly one record per route-map header line, in file
\* order, with the header's name, action and sequence and only the body
\* lines that follow that header: two headers of one name with different
\* sequences give two records.
C14_RecordPerHeader ==
    pc = "done" =>
        [k \in 1..Len(bgp_config.routeMaps) |->
            << bgp_config.routeMaps[k].name, bgp_config.routeMaps[k].action,
               bgp_config.routeMaps[k].sequence, bgp_config.routeMaps[k].lines >>]
          = HeaderRecords(lines, 0)

\* a parse that returned two records named RM1, sequences 10 and 20, with
\* different non-empty bodies
C14_Witness ==
    /\ pc = "done"
    /\ Len(bgp_config.routeMaps) = 2
    /\ bgp_config.routeMaps[1].name = bgp_config.routeMaps[2].name
    /\ bgp_config.routeMaps[1].sequence # bgp_config.routeMaps[2].sequence
    /\ bgp_config.routeMaps[1].lines # << >>
    /\ bgp_config.routeMaps[2].lines # << >>
    /\ bgp_config.routeMaps[1].lines # bgp_config.routeMaps[2].lines

\* s without its byte-order marks
NoBom(s) == Join(SplitOn(s, BOM), "")

\* the length of s without its trailing whitespace
TrimmedLen(s) ==
    CHOOSE k \in 0..Len(s) :
        /\ \A j \in (k + 1)..Len(s) : Char(s, j) \in WhiteSpace
        /\ k = 0 \/ Char(s, k) \notin WhiteSpace

\* s from its first character to its last character that is not whitespace
Trimmed(s) == SubSeq(s, 1, TrimmedLen(s))

\* s has a character that is not whitespace
NotBlank(s) == s # ""

\* the lines of text between newlines, each without byte-order marks and
\* trailing whitespace, the all-blank ones left out
ExpectedLines(text) ==
    SelectSeq([k \in 1..Len(SplitOn(text, "\n")) |->
                  Trimmed(NoBom(SplitOn(text, "\n")[k]))], NotBlank)

\* C15: the line sequence of a parse is, in input order, the input lines that
\* are not all-blank, each without its trailing whitespace and byte-order
\* marks and with its leading whitespace as it was; for the empty input the
\* line sequence is empty and the parse returns a Configuration whose fields
\* are all empty.
C15_LinesNormalised ==
    pc \in {"bgp_block", "done", "error"} =>
        /\ lines = ExpectedLines(content)
        /\ content = "" => pc = "done" /\ lines = << >> /\ bgp_config = EmptyConfig

\* a parse that returned for a text with a line that ends in blanks, an
\* all-blank line and an indented line with a byte-order mark before it and
\* a tab after it
C15_Witness ==
    /\ pc = "done"
    /\ content = "router bgp 65000  \n   \n~   neighbor 10.0.0.1 remote-as 65001\t"
    /\ lines = << "router bgp 65000", "   neighbor 10.0.0.1 remote-as 65001" >>
    /\ Len(bgp_config.globalNeighbors) = 1

\* t is a name of letters, digits and underscores
IsWord(t) == t # "" /\ RunEnd(t, 1, WordChars) = Len(t) + 1

\* the names of word characters that follow kw in the lines ls
WordRefsIn(ls, kw) == { t \in RefsIn(ls, kw) : IsWord(t) }

\* the <name> of the `route-map <name> <direction>` fragments among fragments
RouteMapsNamed(fragments, direction) ==
    { Split(f)[2] : f \in { g \in Range(fragments) :
                               /\ Len(Split(g)) = 3
                               /\ Split(g)[1] = "route-map"
                               /\ Split(g)[3] = direction } }

\* the <group> of the `peer group <group>` fragments among fragments
GroupsNamed(fragments) ==
    { Split(f)[3] : f \in { g \in Range(fragments) :
                               /\ Len(Split(g)) = 3
                               /\ Split(g)[1] = "peer"
                               /\ Split(g)[2] = "group" } }

\* the names a Configuration defines: prefix lists, community lists, as-path
\* sets, route maps and peer groups
Defined(cfg) ==
    [ prefixLists    |-> DOMAIN cfg.prefixLists,
      communityLists |-> { cfg.communityLists[k].name : k \in 1..Len(cfg.communityLists) },
      asPathSets     |-> { cfg.asPathSets[k].name : k \in 1..Len(cfg.asPathSets) },
      routeMaps      |-> { cfg.routeMaps[k].name : k \in 1..Len(cfg.routeMaps) },
      peerGroups     |-> { cfg.peerGroups[k].name : k \in 1..Len(cfg.peerGroups) } ]

\* the references of the record rm that its body lines make
KeepsReferences(rm) ==
    /\ WordRefsIn(rm.lines, "prefix-list") \subseteq rm.prefixSets
    /\ WordRefsIn(rm.lines, "community-list") \subseteq rm.communitySets
    /\ WordRefsIn(rm.lines, "as-path") \subseteq rm.asPathSets

\* the references of the global neighbor n that the block's lines make
KeepsNeighborReferences(ls, n) ==
    /\ RouteMapsNamed(GlobalFragments(ls, n.ip), "in") # {}
          => n.inRouteMap \in RouteMapsNamed(GlobalFragments(ls, n.ip), "in")
    /\ GroupsNamed(GlobalFragments(ls, n.ip)) # {}
          => n.peerGroup \in GroupsNamed(GlobalFragments(ls, n.ip))

C17_InterleavedCallsIndependent ==
    /\ pc = "done" => bgp_config = parse_config(EmptyConfig, content).cfg
    /\ peer.pc = "done" => peer.bgp_config = parse_config(EmptyConfig, peer.content).cfg

\* both calls have returned, for different texts and with neighbors, after
\* the second parser made steps while the call on the first was running
C17_Witness ==
    /\ pc = "done"
    /\ peer.pc = "done"
    /\ peer.overlapped
    /\ peer.iters > 1
    /\ iters > 1
    /\ content # peer.content
    /\ bgp_config.globalNeighbors # << >>
    /\ peer.bgp_config.globalNeighbors # << >>
    /\ bgp_config # peer.bgp_config

\* the generate request that the server has answered with generated lines
Generated == web.phase = "finished" /\ web.path = "/generate" /\ web.status = 200

\* the global Neighbor records of cfg that the keys `<ip>@Global` select
SelectedGlobal(cfg, data) ==
    { n \in Range(cfg.globalNeighbors) : (n.ip \o "@Global") \in Range(data.neighbors) }

\* the Neighbor records of the Vrf record v that the keys `<ip>@<vrf>` select
SelectedOfVrf(v, data) ==
    { n \in Range(v.neighbors) : (n.ip \o "@" \o v.name) \in Range(data.neighbors) }

\* the lines block stand in body from position k on
OccursAt(body, k, block) ==
    k + Len(block) - 1 <= Len(body) /\ SubSeq(body, k, k + Len(block) - 1) = block

\* position k of body is under the line ` vrf <name>`, no other vrf line
\* between
UnderVrf(body, k, name) ==
    \E v \in 1..(k - 1) :
        /\ body[v] = " vrf " \o name
        /\ \A j \in (v + 1)..k : ~StartsWith(body[j], " vrf ")

\* the lines that cfg and the selection data should give, by kind
EmitsSelected(cfg, data, body) ==
    /\ \A name \in Range(data.prefixLists) \cap DOMAIN cfg.prefixLists :
          \A e \in Range(cfg.prefixLists[name]) :
              ("ip prefix-list " \o name \o " " \o e) \in Range(body)
    /\ \A r \in Range(cfg.communityLists) :
          r.name \in Range(data.communityLists) =>
              \A v \in Range(r.communities) :
                  ("ip community-list " \o r.name \o " permit " \o v) \in Range(body)
    /\ \A rm \in Range(cfg.routeMaps) :
          rm.name \in Range(data.routeMaps) =>
              \E k \in 1..Len(body) :
                  /\ StartsWith(body[k], "route-map " \o rm.name \o " ")
                  /\ OccursAt(body, k + 1, rm.lines)
    /\ \A n \in SelectedGlobal(cfg, data) : (" neighbor " \o n.ip) \in Range(body)
    /\ \A v \in Range(cfg.vrfs) : \A n \in SelectedOfVrf(v, data) :
          \E k \in 1..Len(body) :
              body[k] = "  neighbor " \o n.ip /\ UnderVrf(body, k, v.name)

\* C18: after an upload request has returned a Configuration C, a generate
\* request whose selection names a prefix list, community list, route map or
\* neighbor (`<ip>@Global`, `<ip>@<vrf>`) of C emits that object's lines: the
\* generation step reads the Configuration of the preceding upload.
C18_GenerateReadsUpload ==
    (Generated /\ web.uploaded # << >>) =>
        EmitsSelected(web.uploaded[1], web.data, web.body)

\* every selected neighbor's fragments stand in the generated lines one
\* after the other, those of a global neighbor after global_indent and
\* those of a VRF neighbor after vrf_indent and under the line of its VRF
FragmentsIndented(global_indent, vrf_indent) ==
    Generated =>
        /\ \A n \in SelectedGlobal(web.parser, web.data) :
              \E k \in 1..Len(web.body) :
                  OccursAt(web.body, k, Prefixed(global_indent, n.configs))
        /\ \A v \in Range(web.parser.vrfs) : \A n \in SelectedOfVrf(v, web.data) :
              \E k \in 1..Len(web.body) :
                  /\ OccursAt(web.body, k, Prefixed(vrf_indent, n.configs))
                  /\ UnderVrf(web.body, k, v.name)

RouteMapOutput(cfg, data) ==
    UNION { {"route-map " \o rm.name \o " " \o rm.action \o " " \o rm.sequence}
              \cup Range(rm.lines) :
            rm \in { r \in Range(cfg.routeMaps) : r.name \in Range(data.routeMaps) } }

\* the part of the generated output that line belongs to: 1 for a
\* prefix-list line, 2 for a community-list line, 3 for a line of a selected
\* route map, 4 for the `router bgp` line, 0 for any other line
OutputPart(cfg, data, line) ==
    IF StartsWith(line, "ip prefix-list ") THEN 1
    ELSE IF StartsWith(line, "ip community-list ") THEN 2
    ELSE IF line \in RouteMapOutput(cfg, data) THEN 3
    ELSE IF StartsWith(line, "router bgp ") THEN 4
    ELSE 0

\* the positions of the `router bgp` lines of body
SectionStarts(body) == { k \in 1..Len(body) : StartsWith(body[k], "router bgp ") }

\* C20: in generated output every prefix-list line comes before every
\* community-list line, these before every line of a selected route map,
\* and these before the `router bgp <asNumber>` line; that line, followed by
\* the router-id line, is there exactly when the selection has a neighbor
\* identifier, and nothing of the lists comes after it.
C20_OutputOrdered ==
    Generated =>
        /\ \A a, b \in 1..Len(web.body) :
              ( /\ a < b
                /\ OutputPart(web.parser, web.data, web.body[a]) # 0
                /\ OutputPart(web.parser, web.data, web.body[b]) # 0 )
              => OutputPart(web.parser, web.data, web.body[a])
                    <= OutputPart(web.parser, web.data, web.body[b])
        /\ IF web.data.neighbors = << >>
           THEN /\ SectionStarts(web.body) = {}
                /\ \A l \in Range(web.body) : ~StartsWith(l, " router-id ")
           ELSE \E k \in 1..(Len(web.body) - 1) :
                   /\ SectionStarts(web.body) = {k}
                   /\ web.body[k] = "router bgp " \o web.parser.asNumber
                   /\ web.body[k + 1] = " router-id " \o web.parser.routerId

\* generated lines with prefix-list lines, community-list lines, route-map
\* lines and the `router bgp` section
C20_Witness ==
    /\ Generated
    /\ \A part \in 1..4 :
          \E l \in Range(web.body) : OutputPart(web.parser, web.data, l) = part
    /\ "  remote-as 65001" \in Range(web.body)

\* line is a three-space `vrf <name>` line
IsVrfHeader(line) == StartsWith(line, "   vrf ")

\* the lines of the BGP block of ls after its opening line, in file order
BlockLines(ls) == SubSeq(ls, BlockStart(ls) + 2, BlockEnd(ls))

\* the names of the three-space `vrf <name>` lines of the BGP block, in file
\* order
VrfLineNames(ls) ==
    [k \in 1..Len(SelectSeq(BlockLines(ls), IsVrfHeader)) |->
        Split(SelectSeq(BlockLines(ls), IsVrfHeader)[k])[2]]

\* the name of each record of records
Names(records) == [k \in 1..Len(records) |-> records[k].name]

\* C21: every three-space `vrf <name>` line inside the BGP block yields
\* exactly one Vrf record appended to vrfs, in file order, whatever precedes
\* the line and whatever follows it: vrfs never has more records than the
\* block has vrf lines, and the returned vrfs has one record per vrf line,
\* with that line's name, in the order of the lines.
C21_VrfRecordPerLine ==
    /\ Len(bgp_config.vrfs) <= Len(VrfLineNames(lines))
    /\ pc = "done" => Names(bgp_config.vrfs) = VrfLineNames(lines)

\* line is a three-space `neighbor <name> peer group` line whose name is not
\* a dotted-quad IP
IsGroupDefinition(line) ==
    /\ StartsWith(line, "   neighbor ")
    /\ Split(line) = << "neighbor", Split(line)[2], "peer", "group" >>
    /\ ~IsIP(Split(line)[2])

\* the names of the peer-group definition lines of the BGP block, in file
\* order
GroupLineNames(ls) ==
    [k \in 1..Len(SelectSeq(BlockLines(ls), IsGroupDefinition)) |->
        Split(SelectSeq(BlockLines(ls), IsGroupDefinition)[k])[2]]

\* the values that the `neighbor <name> <keyword> <value>` lines of the BGP
\* block give
GroupValues(ls, name, keyword) ==
    { Split(At(ls, k))[4] :
        k \in { j \in BlockBody(ls) :
                  /\ Len(Split(At(ls, j))) = 4
                  /\ SubSeq(Split(At(ls, j)), 1, 3) = << "neighbor", name, keyword >> } }

\* C22: every three-space `neighbor <name> peer group` line whose name is not
\* a dotted-quad IP yields exactly one PeerGroup record for that definition
\* line: peerGroups never has more records than the block has definition
\* lines, the returned peerGroups has one record per definition line, with
\* that line's name, in the order of the lines, and the remoteAs of a record
\* is empty or given by a `neighbor <name> remote-as` line of the block.
C22_GroupRecordPerLine ==
    /\ Len(bgp_config.peerGroups) <= Len(GroupLineNames(lines))
    /\ pc = "done" =>
         /\ Names(bgp_config.peerGroups) = GroupLineNames(lines)
         /\ \A g \in Range(bgp_config.peerGroups) :
               g.remoteAs \in {""} \cup GroupValues(lines, g.name, "remote-as")

\* the indices of the lines of the VRF block that the vrf line at index h
\* opens: the lines after it up to the next three-space vrf line or the end
\* of the BGP block
VrfBlockOf(ls, h) ==
    { k \in BlockBody(ls) : k > h /\ \A j \in h + 1 .. k : ~IsVrfHeader(At(ls, j)) }

\* the indices of the three-space vrf lines of the BGP block that name the
\* VRF name
HeadersNamed(ls, name) == { h \in VrfHeaders(ls) : Split(At(ls, h))[2] = name }

\* C23: indentation decides scope: every fragment in the configs of a
\* Neighbor record inside a Vrf is the fragment of a six-space
\* `neighbor <ip> ...` line of a VRF block of that name, so that a
\* three-space `neighbor <ip> ...` line is never attributed to a VRF
\* neighbor, even when it stands after a VRF block's six-space lines.
C23_IndentationDecidesScope ==
    \A r \in Range(bgp_config.vrfs) : \A m \in Range(r.neighbors) :
        \A f \in Range(m.configs) :
            \E h \in HeadersNamed(lines, r.name) : \E k \in VrfBlockOf(lines, h) :
                /\ IsNeighborLine(At(lines, k), "      ", m.ip)
                /\ Fragment(At(lines, k), m.ip) = f

\* the index of the k-th three-space vrf line of the BGP block
HeaderAt(ls, k) ==
    CHOOSE h \in VrfHeaders(ls) : Cardinality({ g \in VrfHeaders(ls) : g <= h }) = k

\* the index of the line that ends the VRF block opened at index h: the next
\* three-space vrf line, or the end of the BGP block
VrfBlockEnd(ls, h) ==
    IF \E g \in VrfHeaders(ls) : g > h
    THEN CHOOSE g \in VrfHeaders(ls) : g > h /\ \A e \in VrfHeaders(ls) : e > h => g <= e
    ELSE BlockEnd(ls)

RECURSIVE FragmentsBetween(_, _, _, _)
\* the fragments of the `neighbor <ip> <config>` lines of ls from index k up
\* to index end, at whatever indentation, in file order
FragmentsBetween(ls, k, end, ip) ==
    IF k >= end THEN << >>
    ELSE (IF IsLineOf(Strip(At(ls, k)), ip)
          THEN << Fragment(At(ls, k), ip) >> ELSE << >>)
         \o FragmentsBetween(ls, k + 1, end, ip)

\* the fragments for ip of the VRF block that the k-th vrf line opens
OwnBlockFragments(ls, k, ip) ==
    FragmentsBetween(ls, HeaderAt(ls, k) + 1, VrfBlockEnd(ls, HeaderAt(ls, k)), ip)

\* the AS numbers that the remote-as fragments among fragments give
RemoteAsOf(fragments) ==
    { Last(Split(f)) : f \in { g \in Range(fragments) : StartsWith(g, "remote-as ") } }

\* C24: the rescan for a neighbor of a VRF block reads only the lines between
\* that block's own vrf line and that block's own end: where the returned
\* vrfs has one record per vrf line, the configs of every neighbor of the
\* k-th record are the fragments for its IP of the block that the k-th vrf
\* line opens, and its remoteAs is one of theirs, also when two VRF blocks
\* carry the same name.
C24_RescanReadsOwnBlock ==
    (pc = "done" /\ Len(bgp_config.vrfs) = Cardinality(VrfHeaders(lines))) =>
        \A k \in 1..Len(bgp_config.vrfs) : \A m \in Range(bgp_config.vrfs[k].neighbors) :
            /\ m.configs = OwnBlockFragments(lines, k, m.ip)
            /\ m.remoteAs \in {""} \cup RemoteAsOf(OwnBlockFragments(lines, k, m.ip))

\* the index of the first three-space vrf line of the BGP block, where its
\* VRF sub-sections begin; the end of the block when it has none
FirstVrfHeader(ls) ==
    IF VrfHeaders(ls) = {} THEN BlockEnd(ls)
    ELSE CHOOSE h \in VrfHeaders(ls) : \A g \in VrfHeaders(ls) : h <= g

\* the fragments for ip of the lines of the BGP block that lie in no VRF
\* sub-section
OutsideVrfFragments(ls, ip) ==
    FragmentsBetween(ls, BlockStart(ls) + 1, FirstVrfHeader(ls), ip)

\* the quoted or free text that the description fragments among fragments give
DescriptionsOf(fragments) ==
    { IF Contains(f, "\"") THEN SplitOn(f, "\"")[2] ELSE Join(Tail(Split(f)), " ") :
        f \in { g \in Range(fragments) : StartsWith(g, "description ") } }

\* C25: the rescan for a global neighbor skips every VRF sub-section: the
\* configs of a record in globalNeighbors are the fragments for its IP of
\* the lines of the BGP block that lie in no VRF sub-section, and its
\* remoteAs and description are given by them, so that nothing in the record
\* is taken from a line between a three-space vrf line and the next one or the block end.
C25_GlobalRescanSkipsVrfs ==
    \A n \in Range(bgp_config.globalNeighbors) :
        /\ n.configs = OutsideVrfFragments(lines, n.ip)
        /\ n.remoteAs \in {""} \cup RemoteAsOf(OutsideVrfFragments(lines, n.ip))
        /\ n.description \in {""} \cup DescriptionsOf(OutsideVrfFragments(lines, n.ip))

\* a parse that returned a global neighbor for an IP that a six-space line
\* inside a VRF sub-section names too, with another remote-as
C25_Witness ==
    /\ pc = "done"
    /\ \E n \in Range(bgp_config.globalNeighbors) : \E h \in VrfHeaders(lines) :
          \E k \in VrfBlockOf(lines, h) :
              /\ IsNeighborLine(At(lines, k), "      ", n.ip)
              /\ Fragment(At(lines, k), n.ip) \notin Range(n.configs)

\* line is a `router-id <id>` line at an indentation of at least one space
IsRouterIdLine(line) == StartsWith(line, " ") /\ StartsWith(Strip(line), "router-id ")

\* the ids of the router-id lines of the BGP block that lie in no VRF block,
\* in file order
RouterIdsOutsideVrf(ls) ==
    [k \in 1..Len(SelectSeq(SubSeq(ls, BlockStart(ls) + 2, FirstVrfHeader(ls)),
                            IsRouterIdLine)) |->
        Last(Split(SelectSeq(SubSeq(ls, BlockStart(ls) + 2, FirstVrfHeader(ls)),
                             IsRouterIdLine)[k]))]

\* C26: every `router-id <id>` line inside the BGP block at an indentation of
\* at least one space and outside any VRF block sets routerId: the returned
\* routerId is the id of the last such line, wherever the line stands
\* relative to peer-group definitions and neighbor lines.
C26_LastRouterIdWins ==
    (pc = "done" /\ RouterIdsOutsideVrf(lines) # << >>) =>
        bgp_config.routerId = Last(RouterIdsOutsideVrf(lines))

\* C27: a `router-id` line inside a VRF block, between a three-space vrf line
\* and that block's end, never changes routerId, at whatever position of the
\* VRF block it stands: routerId is empty or the id of a router-id line of
\* the BGP block that lies in no VRF block.
C27_VrfRouterIdIgnored ==
    bgp_config.routerId \in {""} \cup Range(RouterIdsOutsideVrf(lines))

\* fragment is `route-map <r> in`
IsRouteMapIn(fragment) ==
    /\ Len(Split(fragment)) = 3
    /\ Split(fragment) = << "route-map", Split(fragment)[2], "in" >>

\* fragment is `route-map <r> out`
IsRouteMapOut(fragment) ==
    /\ Len(Split(fragment)) = 3
    /\ Split(fragment) = << "route-map", Split(fragment)[2], "out" >>

\* fragment names a route map without being `route-map <r> in` or
\* `route-map <r> out`
IsOtherRouteMap(fragment) ==
    Contains(fragment, "route-map") /\ ~IsRouteMapIn(fragment) /\ ~IsRouteMapOut(fragment)

\* the route map that the last of the fragments names; None when there is no
\* fragment
LastNamed(fragments) ==
    IF fragments = << >> THEN None ELSE Split(Last(fragments))[2]

\* the neighbor and peer-group records of a Configuration
FragmentOwners(cfg) == AllNeighbors(cfg) \cup Range(cfg.peerGroups)

\* C28: for every route-map name r, a neighbor or peer-group fragment
\* `route-map <r> in` sets inRouteMap to r and leaves outRouteMap unset, and
\* a fragment `route-map <r> out` sets outRouteMap to r and leaves inRouteMap
\* unset: in a record with no other fragment that names a route map,
\* inRouteMap is the name of its last `in` fragment, outRouteMap the name of
\* its last `out` fragment, and each is unset without such a fragment.
C28_RouteMapDirection ==
    \A rec \in FragmentOwners(bgp_config) :
        SelectSeq(rec.configs, IsOtherRouteMap) = << >> =>
            /\ rec.inRouteMap = LastNamed(SelectSeq(rec.configs, IsRouteMapIn))
            /\ rec.outRouteMap = LastNamed(SelectSeq(rec.configs, IsRouteMapOut))

\* fragment begins with `default-originate`
IsDefaultOriginate(fragment) == StartsWith(fragment, "default-originate")

\* fragment has a token `route-map` with a name after it
NamesRouteMap(fragment) ==
    \E k \in 1..Len(Split(fragment)) - 1 : Split(fragment)[k] = "route-map"

\* the name after the first token `route-map` of fragment
RouteMapNamedIn(fragment) ==
    Split(fragment)[1 + CHOOSE k \in 1..Len(Split(fragment)) - 1 :
                            /\ Split(fragment)[k] = "route-map"
                            /\ \A j \in 1..k - 1 : Split(fragment)[j] # "route-map"]

\* the default-originate fragments of a neighbor, in the order of its configs
DefaultOriginates(neighbor) == SelectSeq(neighbor.configs, IsDefaultOriginate)

\* C29: a neighbor fragment beginning with `default-originate` sets
\* defaultOriginate to the fragment, and when it contains `route-map <r>` it
\* also sets defaultOriginateRouteMap to the name r, whatever tokens follow
\* r: defaultOriginate is the last such fragment of the neighbor, and
\* defaultOriginateRouteMap is the name that the last of them with a route
\* map gives.
C29_DefaultOriginate ==
    \A n \in AllNeighbors(bgp_config) :
        /\ DefaultOriginates(n) # << >> =>
              n.defaultOriginate = Last(DefaultOriginates(n))
        /\ SelectSeq(DefaultOriginates(n), NamesRouteMap) # << >> =>
              n.defaultOriginateRouteMap =
                  RouteMapNamedIn(Last(SelectSeq(DefaultOriginates(n), NamesRouteMap)))

RECURSIVE FollowingRun(_, _)
\* the entries of the seq lines of ls that follow one another from index k
FollowingRun(ls, k) ==
    IF k >= Len(ls) THEN << >>
    ELSE IF IsSeqLine(At(ls, k))
    THEN << SeqEntry(At(ls, k)) >> \o FollowingRun(ls, k + 1)
    ELSE << >>

RECURSIVE RunsOf(_, _, _)
\* the entries of the seq lines that immediately follow each header of name
\* at or after index k, one header after the other
RunsOf(ls, k, name) ==
    IF k >= Len(ls) THEN << >>
    ELSE (IF k \in HeadersOf(ls, name) THEN FollowingRun(ls, k + 1) ELSE << >>)
         \o RunsOf(ls, k + 1, name)

RECURSIVE EntryCount(_, _)
\* the number of entries that the prefix lists called names have in pl
EntryCount(pl, names) ==
    IF names = {} THEN 0
    ELSE LET name == CHOOSE n \in names : TRUE
         IN  Len(pl[name]) + EntryCount(pl, names \ {name})

\* C30: the sub-scan started by an `ip prefix-list <name>` header consumes
\* only the seq lines that immediately follow the header: under every name
\* prefixLists holds the entries of the seq lines that directly follow each
\* of its headers, so that a seq line after the line that ended the sub-scan
\* is attributed to no list, and all lists together hold at most one entry
\* per seq line.
C30_SeqLinesAfterHeader ==
    pc = "done" =>
        /\ \A name \in DOMAIN bgp_config.prefixLists :
               bgp_config.prefixLists[name] = RunsOf(lines, 0, name)
        /\ EntryCount(bgp_config.prefixLists, DOMAIN bgp_config.prefixLists)
               <= Len(SelectSeq(lines, IsSeqLine))

\* the position of the `permit` keyword token of a community-list line: the
\* first token after the name that is `permit`; 0 when there is none
KeywordAt(line) ==
    LET parts == Split(line)
    IN  IF \E k \in 4..Len(parts) : parts[k] = "permit"
        THEN CHOOSE k \in 4..Len(parts) :
                 /\ parts[k] = "permit"
                 /\ \A j \in 4..(k - 1) : parts[j] # "permit"
        ELSE 0

\* the tokens of a community-list line that follow its `permit` keyword token
AfterKeyword(line) ==
    IF KeywordAt(line) = 0 THEN << >>
    ELSE SubSeq(Split(line), KeywordAt(line) + 1, Len(Split(line)))

RECURSIVE KeywordValues(_, _)
\* the tokens after the keyword of the community-list lines of ls whose third
\* token is name, in line order
KeywordValues(ls, name) ==
    IF ls = << >> THEN << >>
    ELSE (IF IsCommunityLine(Head(ls)) /\ Split(Head(ls))[3] = name
          THEN AfterKeyword(Head(ls)) ELSE << >>)
         \o KeywordValues(Tail(ls), name)

\* C31: the communities of a record are the tokens that follow the `permit`
\* keyword token on the community-list lines of its name, in line order; no
\* token at or before the keyword, such as the name or the list type, is
\* among them.
C31_ValuesFollowPermit ==
    pc = "done" =>
        \A r \in Range(bgp_config.communityLists) :
            r.communities = KeywordValues(lines, r.name)

RECURSIVE TokenEnd(_, _, _)
\* the position after the n-th token of s at or after k
TokenEnd(s, k, n) ==
    IF n = 0 THEN k ELSE TokenEnd(s, WordEnd(s, FirstNonSpace(s, k)), n - 1)

\* the text of an as-path line after its action keyword, the fifth token
TextAfterAction(line) == Strip(From(line, TokenEnd(line, 1, 5)))

\* the tokens of an as-path line after its action keyword, one space between
\* two of them
TokensAfterAction(line) == Join(SubSeq(Split(line), 6, Len(Split(line))), " ")

\* the as-path lines of ls with at least six tokens that name name, in line
\* order
AsPathLinesOf(ls, name) ==
    SelectSeq(ls, LAMBDA l : FullAsPath(l) /\ Split(l)[4] = name)

\* one record for each name of an as-path line with at least six tokens
OneSetPerName(sets) ==
    /\ Distinct([k \in 1..Len(sets) |-> sets[k].name])
    /\ NamesIn(sets) = { Split(lines[k])[4] : k \in { j \in 1..Len(lines) : FullAsPath(lines[j]) } }

\* C32 as stated: for every as-path line with at least six tokens the text
\* after the action keyword is appended to the paths of the one record of its
\* name, in line order over all lines of the name; asPathSets holds no two
\* records of the same name.
C32_PathsAreTextAfterAction ==
    pc = "done" =>
        /\ OneSetPerName(bgp_config.asPathSets)
        /\ \A r \in Range(bgp_config.asPathSets) :
               r.paths = [k \in 1..Len(AsPathLinesOf(lines, r.name)) |->
                             TextAfterAction(AsPathLinesOf(lines, r.name)[k])]

\* C32 amended: what is appended is the tokens after the action keyword
\* joined by single spaces, so a run of whitespace inside the pattern is
\* stored as one space; the rest as stated.
C32_PathsAreJoinedTokens ==
    pc = "done" =>
        /\ OneSetPerName(bgp_config.asPathSets)
        /\ \A r \in Range(bgp_config.asPathSets) :
               r.paths = [k \in 1..Len(AsPathLinesOf(lines, r.name)) |->
                             TokensAfterAction(AsPathLinesOf(lines, r.name)[k])]

\* a parse that returned for a text with two lines of AP1, a line of AP2
\* between them, the second line of AP1 with two spaces inside its pattern
C32_Witness ==
    /\ pc = "done"
    /\ lines = << "ip as-path access-list AP1 permit ^65001_",
                  "ip as-path access-list AP2 deny _65002$",
                  "ip as-path access-list AP1 permit ^65001  65002$" >>
    /\ bgp_config.asPathSets =
          << [name |-> "AP1", paths |-> << "^65001_", "^65001 65002$" >>],
             [name |-> "AP2", paths |-> << "_65002$" >>] >>

\* line is an `ip access-list <name>` header line
IsAccessHeader(line) == StartsWith(Strip(line), "ip access-list ")

\* the indices of the access-list header lines of ls
AccessHeaders(ls) == { k \in 1..Len(ls) : IsAccessHeader(ls[k]) }

\* the index of the n-th access-list header line of ls
AccessHeaderAt(ls, n) ==
    CHOOSE k \in AccessHeaders(ls) :
        Cardinality({ j \in AccessHeaders(ls) : j <= k }) = n

\* the index of the first access-list header line of ls after h; one past the
\* last line when there is none
NextAccessHeader(ls, h) ==
    IF \E k \in AccessHeaders(ls) : k > h
    THEN CHOOSE k \in AccessHeaders(ls) :
             k > h /\ \A j \in AccessHeaders(ls) : j > h => k <= j
    ELSE Len(ls) + 1

\* C33: accessLists holds one record per `ip access-list <name>` header line,
\* in file order, named by the line; two blocks with the same name, adjacent
\* or not, give two records, and the entries of a record all come from the
\* lines between its own header and the next header.
C33_RecordPerAccessHeader ==
    pc = "done" =>
        /\ Len(bgp_config.accessLists) = Cardinality(AccessHeaders(lines))
        /\ \A n \in 1..Len(bgp_config.accessLists) :
               LET r == bgp_config.accessLists[n]
                   h == AccessHeaderAt(lines, n)
               IN  /\ r.name = Split(lines[h])[3]
                   /\ h + Len(r.entries) < NextAccessHeader(lines, h)
                   /\ \A j \in 1..Len(r.entries) : r.entries[j] = Strip(lines[h + j])

\* a parse that returned for a text with two blocks of ACL1, a `!` line
\* between them, each block with an entry
C33_Witness ==
    /\ pc = "done"
    /\ lines = << "ip access-list ACL1", "permit ip any any", "!",
                  "ip access-list ACL1" >>
    /\ bgp_config.accessLists =
          << [name |-> "ACL1", entries |-> << "permit ip any any" >>],
             [name |-> "ACL1", entries |-> << >>] >>

\* line starts a top-level statement: an unindented `ip`, `route-map` or
\* `router` line
IsTopLevelStatement(line) ==
    \/ StartsWith(line, "ip ")
    \/ StartsWith(line, "route-map ")
    \/ StartsWith(line, "router ")

RECURSIVE UnindentedEntries(_, _)
\* the unindented lines of ls from index k up to the first separator or the
\* first line of a following top-level statement, as they stand; an indented
\* line is passed over
UnindentedEntries(ls, k) ==
    IF k > Len(ls) \/ StartsWith(ls[k], "!") \/ IsTopLevelStatement(ls[k]) THEN << >>
    ELSE IF StartsWith(ls[k], " ") THEN UnindentedEntries(ls, k + 1)
    ELSE << ls[k] >> \o UnindentedEntries(ls, k + 1)

\* C34: the entries of an access-list record are the unindented lines that
\* follow its header up to the first separator, each as it stands in the
\* normalized line sequence; indented lines and the lines of a following
\* top-level statement are not entries.
C34_EntriesUnindentedVerbatim ==
    pc = "done" =>
        \A n \in 1..Len(bgp_config.accessLists) :
            bgp_config.accessLists[n].entries
                = UnindentedEntries(lines, AccessHeaderAt(lines, n) + 1)

\* line is a `!` comment, indented or not
IsComment(line) == StartsWith(Strip(line), "!")

\* line ends a route-map body: it does not begin with whitespace and is not
\* a `!` comment
EndsBody(line) == Char(line, 1) \notin WhiteSpace /\ ~IsComment(line)

\* the index of the first line of ls at or after k that ends a route-map
\* body; one past the last line when there is none
BodyEnd(ls, k) ==
    IF \E j \in k..Len(ls) : EndsBody(ls[j])
    THEN CHOOSE j \in k..Len(ls) :
             EndsBody(ls[j]) /\ \A m \in k..(j - 1) : ~EndsBody(ls[m])
    ELSE Len(ls) + 1

RECURSIVE BodyRecords(_, _)
\* name, sequence and body of each route map of ls from index k on: a body
\* reaches to the line that ends it, which is examined as a header again,
\* and holds the lines that are no comments, as they stand
BodyRecords(ls, k) ==
    IF k > Len(ls) THEN << >>
    ELSE IF IsRouteMapHeader(ls[k])
    THEN << << Split(ls[k])[2], Split(ls[k])[4],
               SelectSeq(SubSeq(ls, k + 1, BodyEnd(ls, k + 1) - 1),
                         LAMBDA l : ~IsComment(l)) >> >>
         \o BodyRecords(ls, BodyEnd(ls, k + 1))
    ELSE BodyRecords(ls, k + 1)

\* C35: a route-map body ends at the first unindented line that is not a `!`
\* comment; that line is not consumed, so a route-map header there starts
\* the next record; the lines of a record are the non-comment lines of its
\* body in order, each as it stands in the normalized lines, leading
\* whitespace included.
C35_BodyEndsAtUnindentedLine ==
    pc = "done" =>
        [k \in 1..Len(bgp_config.routeMaps) |->
            << bgp_config.routeMaps[k].name, bgp_config.routeMaps[k].sequence,
               bgp_config.routeMaps[k].lines >>]
          = BodyRecords(lines, 1)

RECURSIVE AnyOrderGives(_, _, _, _)
\* the extractor calls of the set remaining, made in any order on a parser
\* whose bgp_config is cfg, leave the Configuration result
AnyOrderGives(remaining, cfg, ls, result) ==
    IF remaining = {} THEN cfg = result
    ELSE \A k \in remaining :
             AnyOrderGives(remaining \ {k}, Extractor(k, cfg, ls), ls, result)

\* C36: the extractors leave the normalized lines as they are and each
\* writes only its own fields of the Configuration, so the six extractor
\* calls made in any order on the lines give the Configuration that
\* parse_config returns.
C36_AnyOrderSameConfiguration ==
    pc = "done" =>
        /\ lines = Normalize(content)
        /\ AnyOrderGives(1..6, reset(EmptyConfig), lines, bgp_config)

\* a parse that returned with something from each of the six extractors
C36_Witness ==
    /\ pc = "done"
    /\ bgp_config.prefixLists # << >>
    /\ bgp_config.communityLists # << >>
    /\ bgp_config.accessLists # << >>
    /\ bgp_config.asPathSets # << >>
    /\ bgp_config.routeMaps # << >>
    /\ bgp_config.routeMaps[1].prefixSets # {}
    /\ bgp_config.globalNeighbors # << >>

\* C37: a Configuration that a parse_config call returned is left as it was
\* returned by every later parse_config call on the same parser: each call
\* builds its result in an object of its own.
C37_ReturnedLeftUnchanged ==
    /\ \A k \in 1..Len(peer.returned) :
           peer.objects[peer.returned[k].object] = peer.returned[k].value
    /\ Distinct([k \in 1..Len(peer.returned) |-> peer.returned[k].object])

\* a later call has returned, on another text than the first call, which
\* returned neighbors
C37_Witness ==
    /\ pc = "done"
    /\ Len(peer.returned) >= 2
    /\ peer.returned[1].value.globalNeighbors # << >>
    /\ peer.returned[2].value # peer.returned[1].value
    /\ bgp_config = peer.returned[Len(peer.returned)].value

\* C38: in each of the five flat scans every iteration of the outer loop
\* leaves the cursor beyond where it found it, also when a sub-scan stepped
\* the cursor back by one or left the line that ended it unconsumed, so each
\* of the five scans comes to its end on every input: none makes more
\* iterations than there are lines.
C38_FlatScansMoveOn ==
    [][FlatScanning => /\ pc' = pc => i' > i
                       /\ iters' <= Len(lines)]_vars

\* the outer loop of a scan stands at the line that ended a sub-scan right
\* after the header: the `!` line after a prefix-list or access-list header
\* that the sub-scan stepped back from, or the header that ended the body of
\* the route-map header before it
C38_Witness ==
    /\ i > 0
    /\ i < Len(lines)
    /\ \/ pc = "prefix_lists" /\ At(lines, i) = "!" /\ IsPrefixHeader(At(lines, i - 1))
       \/ pc = "access_lists" /\ IsAccessHeader(At(lines, i)) /\ IsAccessHeader(At(lines, i - 1))
       \/ pc = "route_maps" /\ IsRouteMapHeader(At(lines, i)) /\ IsRouteMapHeader(At(lines, i - 1))

\* the fragments of the lines of ls whose first token is `neighbor` and whose
\* second token is ip, in line order
OwnFragments(ls, ip) ==
    LET own == SelectSeq(ls, LAMBDA l : /\ Len(Split(l)) >= 2
                                        /\ Split(l)[1] = "neighbor"
                                        /\ Split(l)[2] = ip)
    IN  [k \in 1..Len(own) |-> Fragment(own[k], ip)]

\* C39: a neighbor record for an IP collects only lines whose second token
\* is that IP: its configs, remoteAs and description come from such lines
\* only, and a line for another IP that begins with it, 10.0.0.10 against
\* 10.0.0.1, gives it nothing, in the global and in the VRF rescan.
C39_OnlyLinesOfTheIp ==
    \A n \in AllNeighbors(bgp_config) :
        /\ Range(n.configs) \subseteq Range(OwnFragments(lines, n.ip))
        /\ n.remoteAs \in {""} \cup RemoteAsOf(OwnFragments(lines, n.ip))
        /\ n.description \in {""} \cup DescriptionsOf(OwnFragments(lines, n.ip))

\* a parse that returned records for 10.0.0.1 and for 10.0.0.10, global or
\* of a VRF, each with its own AS number
C39_Witness ==
    /\ pc = "done"
    /\ \E n, m \in AllNeighbors(bgp_config) :
          /\ n.ip = "10.0.0.1"
          /\ m.ip = "10.0.0.10"
          /\ n.remoteAs \in {"65001", "65101"}
          /\ m.remoteAs \in {"65010", "65110"}
          /\ ("vrf" \in DOMAIN n) = ("vrf" \in DOMAIN m)

\* the RouteMap records of cfg called name, in file order
RecordsCalled(cfg, name) == SelectSeq(cfg.routeMaps, LAMBDA rm : rm.name = name)

\* the header line that generation writes for the RouteMap record rm
GeneratedHeader(rm) ==
    "route-map " \o rm.name \o " " \o rm.action \o " " \o rm.sequence

\* the positions of the header lines of the route map called name in body
GeneratedHeaders(body, name) ==
    { k \in 1..Len(body) : StartsWith(body[k], "route-map " \o name \o " ") }

====
